---- MODULE Spec2Model ----
(***************************************************************************)
(* DocScoop: bounded recursive crawl (docscoop.py) over the anonymous      *)
(* transport (anonymous_connection.py).                                    *)
(*                                                                         *)
(* URLs, hrefs and extensions are sequences of one-character strings, so   *)
(* that urlparse, os.path.splitext, str.lower and urljoin are computed on  *)
(* the text as the library computes them, the ValueError of urlsplit for   *)
(* a bracketed host included.  The URL alphabet is ASCII and has, of the   *)
(* control characters, only tab, LF, CR and FF.                            *)
(***************************************************************************)
EXTENDS Integers, Sequences, FiniteSets, Bags, TLC

(***************************************************************************)
(* Text helpers (Python str operations on character sequences)             *)
(***************************************************************************)
UpperChars == <<"A","B","C","D","E","F","G","H","I","J","K","L","M",
                "N","O","P","Q","R","S","T","U","V","W","X","Y","Z">>

LowerChars == <<"a","b","c","d","e","f","g","h","i","j","k","l","m",
                "n","o","p","q","r","s","t","u","v","w","x","y","z">>

Digits == {"0","1","2","3","4","5","6","7","8","9"}

Range(s) == { s[i] : i \in DOMAIN s }

\* str.lower() on one character
LowerChar(c) ==
  IF \E i \in DOMAIN UpperChars : UpperChars[i] = c
  THEN LowerChars[CHOOSE i \in DOMAIN UpperChars : UpperChars[i] = c]
  ELSE c

\* str.lower()
Lower(s) == [ i \in DOMAIN s |-> LowerChar(s[i]) ]

\* s[a..b] (1-based, inclusive); the empty sequence when a > b
Slice(s, a, b) == IF a > b THEN << >> ELSE SubSeq(s, a, b)

\* str.find(c): least 1-based index i >= from with s[i] in cs, 0 when none
FindFirst(s, cs, from) ==
  LET hits == { i \in DOMAIN s : i >= from /\ s[i] \in cs }
  IN  IF hits = {} THEN 0 ELSE CHOOSE i \in hits : \A j \in hits : i <= j

\* str.rfind(c): greatest 1-based index i with s[i] = c, 0 when none
FindLast(s, c) ==
  LET hits == { i \in DOMAIN s : s[i] = c }
  IN  IF hits = {} THEN 0 ELSE CHOOSE i \in hits : \A j \in hits : i >= j

(***************************************************************************)
(* urllib.parse (Python 3.11): urlsplit, urlparse, urlunparse, urljoin     *)
(***************************************************************************)
SchemeChars == Range(UpperChars) \cup Range(LowerChars) \cup Digits \cup {"+", "-", "."}

\* _WHATWG_C0_CONTROL_OR_SPACE: its members that a string of the model holds
C0ControlOrSpace == {" ", "\t", "\n", "\r", "\f"}

\* _UNSAFE_URL_BYTES_TO_REMOVE
UnsafeUrlBytes == {"\t", "\r", "\n"}

\* urllib.parse.uses_relative
uses_relative ==
  {<<>>, <<"f","t","p">>, <<"h","t","t","p">>, <<"g","o","p","h","e","r">>,
   <<"n","n","t","p">>, <<"i","m","a","p">>, <<"w","a","i","s">>,
   <<"f","i","l","e">>, <<"h","t","t","p","s">>, <<"s","h","t","t","p">>,
   <<"m","m","s">>, <<"p","r","o","s","p","e","r","o">>, <<"r","t","s","p">>,
   <<"r","t","s","p","s">>, <<"r","t","s","p","u">>, <<"s","f","t","p">>,
   <<"s","v","n">>, <<"s","v","n","+","s","s","h">>, <<"w","s">>,
   <<"w","s","s">>}

\* urllib.parse.uses_netloc
uses_netloc ==
  {<<>>, <<"f","t","p">>, <<"h","t","t","p">>, <<"g","o","p","h","e","r">>,
   <<"n","n","t","p">>, <<"t","e","l","n","e","t">>, <<"i","m","a","p">>,
   <<"w","a","i","s">>, <<"f","i","l","e">>, <<"m","m","s">>,
   <<"h","t","t","p","s">>, <<"s","h","t","t","p">>, <<"s","n","e","w","s">>,
   <<"p","r","o","s","p","e","r","o">>, <<"r","t","s","p">>,
   <<"r","t","s","p","s">>, <<"r","t","s","p","u">>, <<"r","s","y","n","c">>,
   <<"s","v","n">>, <<"s","v","n","+","s","s","h">>, <<"s","f","t","p">>,
   <<"n","f","s">>, <<"g","i","t">>, <<"g","i","t","+","s","s","h">>,
   <<"w","s">>, <<"w","s","s">>}

\* urllib.parse.uses_params
uses_params ==
  {<<>>, <<"f","t","p">>, <<"h","d","l">>,
   <<"p","r","o","s","p","e","r","o">>, <<"h","t","t","p">>,
   <<"i","m","a","p">>, <<"h","t","t","p","s">>, <<"s","h","t","t","p">>,
   <<"r","t","s","p">>, <<"r","t","s","p","s">>, <<"r","t","s","p","u">>,
   <<"s","i","p">>, <<"s","i","p","s">>, <<"m","m","s">>, <<"s","f","t","p">>,
   <<"t","e","l">>}

\* str.split(c)
RECURSIVE SplitOn(_, _)
SplitOn(s, c) ==
  IF FindFirst(s, {c}, 1) = 0 THEN <<s>>
  ELSE <<Slice(s, 1, FindFirst(s, {c}, 1) - 1)>> \o
       SplitOn(Slice(s, FindFirst(s, {c}, 1) + 1, Len(s)), c)

\* int(s, 10) for a string of decimal digits
RECURSIVE DecimalValue(_)
DecimalValue(s) ==
  IF s = << >> THEN 0
  ELSE 10 * DecimalValue(Slice(s, 1, Len(s) - 1)) +
       (CHOOSE d \in 0..9 :
          <<"0","1","2","3","4","5","6","7","8","9">>[d + 1] = s[Len(s)])

\* ipaddress._BaseV4._parse_octet returns a value
ValidOctet(octet) ==
  /\ octet # << >>
  /\ Range(octet) \subseteq Digits
  /\ Len(octet) <= 3
  /\ ~(octet # <<"0">> /\ octet[1] = "0")
  /\ DecimalValue(octet) <= 255

\* ipaddress.IPv4Address(s) returns an address
IPv4Address(s) ==
  /\ "/" \notin Range(s)
  /\ s # << >>
  /\ Len(SplitOn(s, ".")) = 4
  /\ \A i \in 1..4 : ValidOctet(SplitOn(s, ".")[i])

\* ipaddress._BaseV6._HEX_DIGITS
HexDigits == Digits \cup {"A","B","C","D","E","F","a","b","c","d","e","f"}

\* ipaddress._BaseV6._parse_hextet returns a value
ValidHextet(hextet) ==
  hextet # << >> /\ Range(hextet) \subseteq HexDigits /\ Len(hextet) <= 4

\* _BaseV6._ip_int_from_string after the IPv4 suffix was converted: parts is
\* the list of parts, skips the places of the empty parts strictly inside
ValidHextets(parts, skips) ==
  IF Len(parts) > 9 \/ Cardinality(skips) > 1 THEN FALSE
  ELSE IF skips # {}
  THEN LET skip     == CHOOSE i \in skips : TRUE
           parts_hi == IF parts[1] = << >> THEN skip - 2 ELSE skip - 1
           parts_lo == IF parts[Len(parts)] = << >> THEN Len(parts) - skip - 1
                       ELSE Len(parts) - skip
       IN  /\ parts[1] = << >> => parts_hi = 0
           /\ parts[Len(parts)] = << >> => parts_lo = 0
           /\ 8 - (parts_hi + parts_lo) >= 1
           /\ \A i \in 1..parts_hi : ValidHextet(parts[i])
           /\ \A i \in (Len(parts) - parts_lo + 1)..Len(parts) : ValidHextet(parts[i])
  ELSE /\ Len(parts) = 8
       /\ \A i \in 1..8 : ValidHextet(parts[i])

\* _BaseV6._ip_int_from_string(s) returns a value
ValidIPv6Int(s) ==
  LET parts == SplitOn(s, ":")
      last  == parts[Len(parts)]
      conv  == IF "." \in Range(last)
               THEN Slice(parts, 1, Len(parts) - 1) \o << <<"0">>, <<"0">> >>
               ELSE parts
  IN  /\ s # << >>
      /\ Len(parts) >= 3
      /\ "." \in Range(last) => IPv4Address(last)
      /\ ValidHextets(conv, { i \in 2..(Len(conv) - 1) : conv[i] = << >> })

\* ipaddress.IPv6Address(s) returns an address: _split_scope_id, then the
\* address before the first "%"
IPv6Address(s) ==
  LET percent == FindFirst(s, {"%"}, 1)
  IN  /\ "/" \notin Range(s)
      /\ IF percent = 0 THEN ValidIPv6Int(s)
         ELSE /\ percent < Len(s)
              /\ "%" \notin Range(Slice(s, percent + 1, Len(s)))
              /\ ValidIPv6Int(Slice(s, 1, percent - 1))

\* re.match(r"\Av[a-fA-F0-9]+\..+\Z", hostname) for a hostname that starts
\* with "v": stop is the place of the first character after the "v" that is
\* not a hexadecimal digit
MatchesIPvFuture(hostname, stop) ==
  stop > 2 /\ hostname[stop] = "." /\ stop < Len(hostname)

\* _check_bracketed_host(hostname) raises ValueError
InvalidBracketedHost(hostname) ==
  IF hostname # << >> /\ hostname[1] = "v"
  THEN ~MatchesIPvFuture(hostname,
          LET others == { i \in 2..Len(hostname) : hostname[i] \notin HexDigits }
          IN  IF others = {} THEN 0 ELSE CHOOSE i \in others : \A j \in others : i <= j)
  ELSE ~IPv6Address(hostname)

\* urlsplit raises ValueError for the netloc: one bracket without the
\* other, or _check_bracketed_host rejecting
\* netloc.partition('[')[2].partition(']')[0]
InvalidNetloc(netloc) ==
  LET after == Slice(netloc, FindFirst(netloc, {"["}, 1) + 1, Len(netloc))
      close == FindFirst(after, {"]"}, 1)
  IN  IF "[" \in Range(netloc) /\ "]" \in Range(netloc)
      THEN InvalidBracketedHost(IF close = 0 THEN after
                                ELSE Slice(after, 1, close - 1))
      ELSE "[" \in Range(netloc) \/ "]" \in Range(netloc)

\* str.lstrip(chars)
RECURSIVE LStrip(_, _)
LStrip(s, cs) == IF s # << >> /\ s[1] \in cs THEN LStrip(Tail(s), cs) ELSE s

\* str.rstrip(chars)
RECURSIVE RStrip(_, _)
RStrip(s, cs) ==
  IF s # << >> /\ s[Len(s)] \in cs THEN RStrip(Slice(s, 1, Len(s) - 1), cs) ELSE s

\* str.replace(c, "") for each c of cs
Remove(s, cs) == SelectSeq(s, LAMBDA c : c \notin cs)

\* urlsplit: url.lstrip(_WHATWG_C0_CONTROL_OR_SPACE), then the removal of
\* every tab, CR and LF
Cleaned(url) == Remove(LStrip(url, C0ControlOrSpace), UnsafeUrlBytes)

\* urlsplit: url.split('#', 1); hash is the place of the first "#"
SplitFragment(rest, hash) ==
  IF hash = 0 THEN [url |-> rest, fragment |-> << >>]
  ELSE [url |-> Slice(rest, 1, hash - 1), fragment |-> Slice(rest, hash + 1, Len(rest))]

\* urlsplit: url.split('?', 1); mark is the place of the first "?"; raised
\* tells that urlsplit raises ValueError instead of returning the parts
SplitQuery(scheme, netloc, rest, mark, fragment) ==
  [raised |-> InvalidNetloc(netloc), scheme |-> scheme, netloc |-> netloc,
   path |-> IF mark = 0 THEN rest ELSE Slice(rest, 1, mark - 1),
   query |-> IF mark = 0 THEN << >> ELSE Slice(rest, mark + 1, Len(rest)),
   fragment |-> fragment]

\* urlsplit: the fragment and the query of what follows the netloc
SplitQueryFragment(scheme, netloc, rest) ==
  CHOOSE parts \in { SplitQuery(scheme, netloc, f.url, FindFirst(f.url, {"?"}, 1), f.fragment) :
                       f \in {SplitFragment(rest, FindFirst(rest, {"#"}, 1))} } : TRUE

\* _splitnetloc(url, 2): rest starts with "//", the netloc runs to the first
\* of "/", "?", "#", which is at delim
SplitNetloc(scheme, rest, delim) ==
  IF delim = 0 THEN SplitQueryFragment(scheme, Slice(rest, 3, Len(rest)), << >>)
  ELSE SplitQueryFragment(scheme, Slice(rest, 3, delim - 1), Slice(rest, delim, Len(rest)))

ParseAfterScheme(scheme, rest) ==
  IF Len(rest) >= 2 /\ rest[1] = "/" /\ rest[2] = "/"
  THEN SplitNetloc(scheme, rest, FindFirst(rest, {"/", "?", "#"}, 3))
  ELSE SplitQueryFragment(scheme, << >>, rest)

\* colon is the place of the first ":"; what precedes it is the scheme when
\* it starts with a letter and holds scheme characters only, else the scheme
\* is the default
SplitScheme(url, scheme, colon) ==
  IF /\ colon > 1
     /\ url[1] \in Range(UpperChars) \cup Range(LowerChars)
     /\ \A i \in 1..(colon - 1) : url[i] \in SchemeChars
  THEN ParseAfterScheme(Lower(Slice(url, 1, colon - 1)), Slice(url, colon + 1, Len(url)))
  ELSE ParseAfterScheme(scheme, url)

\* urllib.parse.urlsplit(url, scheme)
urlsplit(url, scheme) ==
  CHOOSE parts \in { SplitScheme(u, Remove(RStrip(LStrip(scheme, C0ControlOrSpace),
                                                  C0ControlOrSpace), UnsafeUrlBytes),
                                 FindFirst(u, {":"}, 1)) : u \in {Cleaned(url)} } : TRUE

\* _splitparams: the parameters start at the first ";" of the last path
\* segment, which is at semi
_splitparams(s, semi) ==
  [raised |-> s.raised, scheme |-> s.scheme, netloc |-> s.netloc,
   path |-> IF semi = 0 THEN s.path ELSE Slice(s.path, 1, semi - 1),
   params |-> IF semi = 0 THEN << >> ELSE Slice(s.path, semi + 1, Len(s.path)),
   query |-> s.query, fragment |-> s.fragment]

\* urlparse: the parameters of the split URL s
WithParams(s) ==
  IF s.scheme \in uses_params /\ ";" \in Range(s.path)
  THEN _splitparams(s, FindFirst(s.path, {";"}, IF FindLast(s.path, "/") = 0 THEN 1
                                                 ELSE FindLast(s.path, "/")))
  ELSE _splitparams(s, 0)

\* urllib.parse.urlparse(url, scheme): scheme is the default scheme
urlparse_scheme(url, scheme) ==
  CHOOSE parsed \in { WithParams(s) : s \in {urlsplit(url, scheme)} } : TRUE

\* urllib.parse.urlparse(url)
urlparse(url) == urlparse_scheme(url, << >>)

\* os.path.splitext(path)[1]: the extension of the last path component,
\* leading dots of the component not counted
splitext(p) ==
  LET sepIndex == FindLast(p, "/")
      dotIndex == FindLast(p, ".")
  IN  IF /\ dotIndex > sepIndex
         /\ \E k \in (sepIndex + 1)..(dotIndex - 1) : p[k] # "."
      THEN Slice(p, dotIndex, Len(p))
      ELSE << >>

\* urllib.parse.urlunsplit
urlunsplit(scheme, netloc, url, query, fragment) ==
  (IF scheme # << >> THEN scheme \o <<":">> ELSE << >>) \o
  (IF \/ netloc # << >>
      \/ (scheme # << >> /\ scheme \in uses_netloc /\
          ~(Len(url) >= 2 /\ url[1] = "/" /\ url[2] = "/"))
   THEN <<"/", "/">> \o netloc \o
        (IF url # << >> /\ url[1] # "/" THEN <<"/">> ELSE << >>) \o url
   ELSE url) \o
  (IF query # << >> THEN <<"?">> \o query ELSE << >>) \o
  (IF fragment # << >> THEN <<"#">> \o fragment ELSE << >>)

\* urllib.parse.urlunparse
urlunparse(scheme, netloc, path, params, query, fragment) ==
  urlunsplit(scheme, netloc,
             IF params # << >> THEN path \o <<";">> \o params ELSE path,
             query, fragment)

\* c.join(parts)
RECURSIVE JoinWith(_, _)
JoinWith(parts, c) ==
  IF parts = << >> THEN << >>
  ELSE IF Len(parts) = 1 THEN parts[1]
  ELSE parts[1] \o <<c>> \o JoinWith(Tail(parts), c)

\* urljoin: base_parts, the segments of the base path without the last one
\* when it is not a directory
BaseParts(parts) ==
  IF parts[Len(parts)] # << >> THEN Slice(parts, 1, Len(parts) - 1) ELSE parts

\* urljoin: segments[1:-1] = filter(None, segments[1:-1])
FilterInterior(segments) ==
  IF Len(segments) <= 2 THEN segments
  ELSE <<segments[1]>> \o
       SelectSeq(Slice(segments, 2, Len(segments) - 1), LAMBDA seg : seg # << >>) \o
       <<segments[Len(segments)]>>

\* urljoin: the segments to resolve
Segments(bpath, path) ==
  IF path # << >> /\ path[1] = "/" THEN SplitOn(path, "/")
  ELSE FilterInterior(BaseParts(SplitOn(bpath, "/")) \o SplitOn(path, "/"))

\* urljoin: the loop over the segments, resolved_path so far in acc
RECURSIVE Resolve(_, _)
Resolve(segments, acc) ==
  IF segments = << >> THEN acc
  ELSE IF Head(segments) = <<".", ".">>
  THEN Resolve(Tail(segments), IF acc = << >> THEN acc ELSE Slice(acc, 1, Len(acc) - 1))
  ELSE IF Head(segments) = <<".">> THEN Resolve(Tail(segments), acc)
  ELSE Resolve(Tail(segments), Append(acc, Head(segments)))

\* urljoin: '/'.join(resolved_path) or '/'
ResolvedPath(segments) ==
  LET resolved == Resolve(segments, << >>)
      joined == JoinWith(IF segments[Len(segments)] \in {<<".">>, <<".", ".">>}
                         THEN Append(resolved, << >>) ELSE resolved, "/")
  IN  IF joined = << >> THEN <<"/">> ELSE joined

\* urljoin: the path of the joined URL
JoinPath(bpath, upath) == ResolvedPath(Segments(bpath, upath))

\* urljoin after the test of the netloc: netloc is that of the result
JoinRelative(b, u, netloc) ==
  IF u.path = << >> /\ u.params = << >>
  THEN urlunparse(u.scheme, netloc, b.path, b.params,
                  IF u.query = << >> THEN b.query ELSE u.query, u.fragment)
  ELSE urlunparse(u.scheme, netloc, JoinPath(b.path, u.path), u.params, u.query,
                  u.fragment)

\* urljoin for a non-empty base and url, b = urlparse(base) and
\* u = urlparse(url, b.scheme)
JoinParsed(base, url, b, u) ==
  IF u.scheme # b.scheme \/ u.scheme \notin uses_relative THEN url
  ELSE IF u.scheme \in uses_netloc /\ u.netloc # << >>
  THEN urlunparse(u.scheme, u.netloc, u.path, u.params, u.query, u.fragment)
  ELSE JoinRelative(b, u, IF u.scheme \in uses_netloc THEN b.netloc ELSE u.netloc)

\* urlsplit raises only for a host with a bracket, which the text then has
HasBracket(s) == "[" \in Range(s) \/ "]" \in Range(s)

\* urllib.parse.urlparse(url) raises ValueError
urlparse_raises(url) == HasBracket(url) /\ urlparse(url).raised

\* urllib.parse.urljoin(base, url) raises ValueError: urlparse does, for the
\* base or for the url
urljoin_raises(base, url) ==
  /\ base # << >> /\ url # << >>
  /\ HasBracket(base) \/ HasBracket(url)
  /\ \/ urlparse(base).raised
     \/ urlparse_scheme(url, urlparse(base).scheme).raised

\* urllib.parse.urljoin(base, url), where it returns
\* (the parsed parts are bound to their values once)
urljoin(base, url) ==
  IF base = << >> THEN url
  ELSE IF url = << >> THEN base
  ELSE CHOOSE joined \in
         UNION { { JoinParsed(base, url, b, u) : u \in {urlparse_scheme(url, b.scheme)} } :
                    b \in {urlparse(base)} } : TRUE

(***************************************************************************)
(* Input universe: URLs, page contents, responses                          *)
(***************************************************************************)
HostA == <<"h","t","t","p",":","/","/","a">>

UrlRoot  == HostA \o <<"/">>
UrlP     == HostA \o <<"/","p">>
UrlQ     == HostA \o <<"/","q">>
UrlPdf   == HostA \o <<"/","r",".","p","d","f">>
UrlJpg   == HostA \o <<"/","f",".","j","p","g">>
UrlBlankRoot == <<" ">> \o UrlRoot
NotAUrl  == <<"n","o","-","u","r","l">>
NoHost   == <<"h","t","t","p",":","/","p">>
MailTo   == <<"m","a","i","l","t","o",":","x">>
\* a host that opens a bracket and does not close it: urlsplit raises
UrlBad   == <<"h","t","t","p",":","/","/","[","x">>

HrefRoot  == <<"/">>
HrefP     == <<"p">>
HrefQ     == <<"/","q">>
HrefPdf   == <<"/","r",".","p","d","f">>
HrefTxt   == <<"s",".","t","x","t">>
HrefJpg   == <<"/","f",".","j","p","g">>
HrefT     == <<"/","t">>

\* the URL requests puts on the wire for session.get(url): blanks before
\* the URL are dropped and the fragment is not sent
Resource(url) ==
  CHOOSE r \in { urlunparse(u.scheme, u.netloc, u.path, u.params, u.query, << >>) :
                   u \in {urlparse(url)} } : TRUE

\* every URL the crawl can meet from the seeds and graphs below
Urls == {UrlRoot, UrlP, UrlQ, UrlPdf, UrlJpg, NotAUrl, NoHost, MailTo,
         UrlBlankRoot, UrlBad,
         HostA \o <<"/","s",".","t","x","t">>,
         HostA \o <<"/","F",".","J","P","G">>,
         HostA \o <<"/","t">>,
         UrlRoot \o <<"#","t","o","p">>,
         UrlPdf \o <<"?","d","l","=","1">>}

\* Page bodies: the href attributes of the <a> elements of the page served
\* at a URL, in document order (BeautifulSoup find_all('a', href=True)).
GraphA(url) ==
  IF url = UrlRoot THEN <<HrefPdf, HrefJpg>> ELSE << >>

GraphCyclic(url) ==
  CASE url = UrlRoot -> <<HrefP, <<"/","F",".","J","P","G">>, HrefQ, HrefPdf>>
    [] url = UrlP    -> <<HrefRoot, HrefQ, HrefTxt>>
    [] url = UrlQ    -> <<HrefP, MailTo, UrlRoot>>
    [] url = UrlPdf  -> <<HrefQ, HrefTxt>>
    [] url = UrlJpg  -> <<HrefJpg, HrefPdf>>
    [] OTHER         -> << >>

GraphLoop(url) ==
  CASE url = UrlRoot -> <<HrefP, HrefRoot>>
    [] url = UrlP    -> <<HrefRoot, HrefTxt>>
    [] OTHER         -> << >>

\* a page (q) that the seed links to directly and also through another
\* page (p), with a page (t) behind it; the seed lists p first
GraphDiamond(url) ==
  CASE url = UrlRoot -> <<HrefP, HrefQ>>
    [] url = UrlP    -> <<HrefQ>>
    [] url = UrlQ    -> <<HrefT>>
    [] OTHER         -> << >>

\* the same pages, the seed listing q first
GraphDiamondReversed(url) ==
  CASE url = UrlRoot -> <<HrefQ, HrefP>>
    [] url = UrlP    -> <<HrefQ>>
    [] url = UrlQ    -> <<HrefT>>
    [] OTHER         -> << >>

\* a page with a link to a fragment of itself and a link that carries a tab
\* inside the path and a query
GraphAnchors(url) ==
  IF url = UrlRoot
  THEN << <<"#","t","o","p">>,
          <<"/","r",".","p","\t","d","f","?","d","l","=","1">> >>
  ELSE << >>

\* a page whose second link is malformed, between a page and a document
GraphBrackets(url) ==
  CASE url = UrlRoot -> <<HrefP, UrlBad, HrefPdf>>
    [] url = UrlP    -> <<HrefTxt>>
    [] OTHER         -> << >>

Graphs == {"A", "cyclic", "loop", "diamond", "diamond reversed", "anchors",
           "brackets"}

\* the links of the page the site g serves for the resource page
LinksServed(g, page) ==
  CASE g = "A"        -> GraphA(page)
    [] g = "cyclic"   -> GraphCyclic(page)
    [] g = "loop"     -> GraphLoop(page)
    [] g = "diamond"  -> GraphDiamond(page)
    [] g = "diamond reversed" -> GraphDiamondReversed(page)
    [] g = "anchors"  -> GraphAnchors(page)
    [] g = "brackets" -> GraphBrackets(page)

\* the links of the response to session.get(url) on the site g
PageLinks(g, url) == LinksServed(g, Resource(url))

CtHtml  == "text/html; charset=utf-8"
CtPdf   == "application/pdf"
CtWord  == "application/msword"
CtOoxml == "application/vnd.openxmlformats-officedocument.wordprocessingml.document"

ContentTypes == {CtHtml, CtPdf, CtWord, CtOoxml, "image/jpeg"}

\* needle in content_type (substring test on the Content-Type header)
InContentType(needle, ct) ==
  CASE needle = "text/html"                      -> ct = CtHtml
    [] needle = "application/pdf"                -> ct = CtPdf
    [] needle = "application/msword"             -> ct = CtWord
    [] needle = "application/vnd.openxmlformats" -> ct = CtOoxml
    [] OTHER                                     -> FALSE

\* what session.get can do: raise, or return a response
NetworkError == [kind |-> "error", status |-> 0, ctype |-> ""]

Responses ==
  {[kind |-> "response", status |-> 404, ctype |-> CtHtml]} \cup
  {[kind |-> "response", status |-> 200, ctype |-> ct] : ct \in ContentTypes}

FetchOutcomes == {NetworkError} \cup Responses

\* what session.get can do on the site g: the servers of the two diamond
\* sites answer every request with 200 and hypertext, the others in any way
Served(g) ==
  IF g \in {"diamond", "diamond reversed"}
  THEN {[kind |-> "response", status |-> 200, ctype |-> CtHtml]}
  ELSE FetchOutcomes

\* largest --depth explored
MaxDepthArg == 2
\* attempts explored of one download_document call: its retry has no budget,
\* the attempts of one call fail fewer than MaxAttempts times in a row
MaxAttempts == 4
\* length of the crawl history kept; a crawl of the sites above stays below it
MaxLog == 10

(***************************************************************************)
(* State                                                                   *)
(***************************************************************************)
VARIABLES
  args,                 \* inputs of the run: CLI arguments, site, environment
  phase,                \* position of the main program
  visited_urls,         \* DocScoop.visited_urls (the frontier)
  document_urls,        \* DocScoop.document_urls
  DOCUMENT_EXTENSIONS,  \* DocScoop.DOCUMENT_EXTENSIONS
  IGNORE_EXTENSIONS,    \* DocScoop.IGNORE_EXTENSIONS
  anonymous,            \* DocScoop.anonymous
  use_tor,              \* AnonymousConnection.use_tor
  tor_process,          \* AnonymousConnection.tor_process
  previous_proxy,       \* AnonymousConnection.previous_proxy
  environ,              \* os.environ: HTTP_PROXY, HTTPS_PROXY
  session,              \* DocScoop.session
  stack,                \* call stack of crawl_page, innermost frame last
  crawlLog,             \* history: what crawl_page did, in order
  dl,                   \* the download_document call in progress
  processed,            \* documents the loop of scan_url has been through
  results,              \* scan_url: url and is_sensitive of each result entry
  temp_files,           \* temporary files that exist on disk: a bag, the
                        \* files of two scans can differ in their name only
  scans,                \* calls of scan_url made so far on the instance
  proc_alive,           \* the proxy process launched by the manager is running
  activation,           \* history: the branch start_tor returned through
  exit_status           \* exit status of the process, None while it runs

vars == <<args, phase, visited_urls, document_urls, DOCUMENT_EXTENSIONS,
          IGNORE_EXTENSIONS, anonymous, use_tor, tor_process, previous_proxy,
          environ, session, stack, crawlLog, dl, processed, results, temp_files,
          scans, proc_alive, activation, exit_status>>

None == "None"

(***************************************************************************)
(* AnonymousConnection (anonymous_connection.py)                           *)
(* A connection is the record of the manager's fields together with the    *)
(* process-wide state it mutates (os.environ, the launched process).       *)
(***************************************************************************)
TorProxy == "socks5://127.0.0.1:9050"

EnvValues == {None, "", "http://proxy:3128"}

\* Python truthiness of an environment value or of None
Truthy(v) == v # None /\ v # ""

\* previous_proxy = None: no snapshot of the environment was taken
NoSnapshot == [saved |-> FALSE, http |-> None, https |-> None]

\* AnonymousConnection.__init__
NewConnection(useTor, env) ==
  [use_tor |-> useTor, tor_process |-> None, previous_proxy |-> NoSnapshot,
   environ |-> env, proc_alive |-> FALSE, raised |-> FALSE,
   activation |-> "not called"]

\* _configure_tor_for_requests whose handler resets the socket and goes on
\* to clear use_tor
_configure_tor_for_requests_resetting_socket(c, verified) ==
  LET set == [c EXCEPT !.environ = [http |-> TorProxy, https |-> TorProxy]]
      popped == [set EXCEPT !.environ = [http |-> None, https |-> None]]
  IN  IF verified THEN [set EXCEPT !.activation = "active"]
      ELSE [popped EXCEPT !.use_tor = FALSE, !.activation = "verify failed"]

\* _configure_tor_for_requests: verified is the outcome of the test request.
\* The handler pops the two variables and then reads socket._socketobject
\* or, without it, socket._orig_socket (l.141); the socket module of
\* Python 3 has neither, the read raises AttributeError and the assignment
\* use_tor = False after it is not reached
_configure_tor_for_requests(c, verified) ==
  LET set == [c EXCEPT !.environ = [http |-> TorProxy, https |-> TorProxy]]
      popped == [set EXCEPT !.environ = [http |-> None, https |-> None]]
  IN  IF verified THEN [set EXCEPT !.activation = "active"]
      ELSE [popped EXCEPT !.raised = TRUE, !.activation = "verify failed"]

\* start_tor(launch): probe = _is_tor_running(), launchOk = the process
\* started, verified as above
start_tor(c, launch, probe, launchOk, verified) ==
  IF ~c.use_tor THEN [c EXCEPT !.activation = "not requested"]
  ELSE IF ~probe THEN [c EXCEPT !.use_tor = FALSE, !.activation = "probe failed"]
  ELSE LET saved == [c EXCEPT !.previous_proxy =
                        [saved |-> TRUE, http |-> c.environ.http,
                         https |-> c.environ.https]]
       IN  IF launch /\ ~launchOk
           THEN [saved EXCEPT !.use_tor = FALSE, !.activation = "launch failed"]
           ELSE _configure_tor_for_requests(
                  IF launch
                  THEN [saved EXCEPT !.tor_process = "tor", !.proc_alive = TRUE]
                  ELSE saved,
                  verified)

\* stop_tor restoring the environment without testing that a snapshot exists
stop_tor_without_snapshot_test(c) ==
  IF ~c.use_tor THEN c
  ELSE LET killed == IF c.tor_process # None
                     THEN [c EXCEPT !.tor_process = None, !.proc_alive = FALSE]
                     ELSE c
           pp == c.previous_proxy
       IN  [killed EXCEPT
              !.environ = [http  |-> IF Truthy(pp.http) THEN pp.http ELSE None,
                           https |-> IF Truthy(pp.https) THEN pp.https ELSE None]]

\* stop_tor
stop_tor(c) ==
  IF ~c.use_tor THEN c
  ELSE LET killed == IF c.tor_process # None
                     THEN [c EXCEPT !.tor_process = None, !.proc_alive = FALSE]
                     ELSE c
           pp == c.previous_proxy
       IN  IF pp.saved
           THEN [killed EXCEPT
                   !.environ = [http  |-> IF Truthy(pp.http) THEN pp.http ELSE None,
                                https |-> IF Truthy(pp.https) THEN pp.https ELSE None]]
           ELSE killed

\* renew_tor_identity: the control-port steps in order; the first that fails
\* raises into the handler, which logs and returns
RotationOutcomes == {"renewed", "connect failed", "auth failed", "signal failed"}

\* does renew_tor_identity reach time.sleep(5)
Settled(outcome) == outcome = "renewed"

\* time.sleep(5)
SettleSeconds == 5

\* renew_tor_identity returning at once, as it does with use_tor false
renew_tor_identity_returning_at_once(useTor, outcome) ==
  [attempted |-> FALSE, slept |-> 0, raised |-> FALSE]

\* renew_tor_identity letting the exception of a failed step leave the call
renew_tor_identity_escalating(useTor, outcome) ==
  IF ~useTor THEN [attempted |-> FALSE, slept |-> 0, raised |-> FALSE]
  ELSE [attempted |-> TRUE,
        slept |-> IF Settled(outcome) THEN SettleSeconds ELSE 0,
        raised |-> ~Settled(outcome)]

\* renew_tor_identity with the manager's use_tor and the outcome of the
\* control-port steps: was a rotation attempted, the seconds slept before
\* the return, and whether an exception leaves the call
renew_tor_identity(useTor, outcome) ==
  IF ~useTor THEN [attempted |-> FALSE, slept |-> 0, raised |-> FALSE]
  ELSE [attempted |-> TRUE,
        slept |-> IF Settled(outcome) THEN SettleSeconds ELSE 0,
        raised |-> FALSE]

\* the one User-Agent get_session() sets without Tor
StableUserAgent == "Chrome/91 Windows"

\* _get_random_user_agent(): the pool random.choice draws from; its first
\* entry is the User-Agent get_session() sets without Tor
user_agents ==
  <<StableUserAgent, "Firefox/89 Windows", "Safari/14.1.1 Mac", "Firefox/89 Linux",
    "Edg/91 Windows">>

\* headers of a session; a header that is not set is None
Headers(ua, lang, dnt, upgrade) ==
  [User_Agent |-> ua, Accept_Language |-> lang, DNT |-> dnt,
   Upgrade_Insecure_Requests |-> upgrade]

\* the draws random.choice can make in get_session(): it is called with
\* use_tor true only
Draws(useTor) == IF useTor THEN DOMAIN user_agents ELSE {1}

\* get_session setting the anonymous headers whatever the mode
get_session_ignoring_mode(useTor, choice) ==
  Headers(user_agents[choice], "en-US,en;q=0.5", "1", "1")

\* headers of the session get_session() returns; choice is the place in
\* the pool that random.choice draws
get_session(useTor, choice) ==
  IF useTor THEN Headers(user_agents[choice], "en-US,en;q=0.5", "1", "1")
  ELSE Headers(StableUserAgent, None, None, None)

\* requests.Session()
PlainSession == Headers("python-requests", None, None, None)

\* no session exists yet
NoSession == Headers(None, None, None, None)

(***************************************************************************)
(* DocScoop classification (docscoop.py)                                   *)
(***************************************************************************)
DefaultDocumentExtensions ==
  << <<".","p","d","f">>, <<".","t","x","t">>, <<".","d","o","c">>,
     <<".","d","o","c","x">>, <<".","r","t","f">>, <<".","c","s","v">>,
     <<".","x","l","s">>, <<".","x","l","s","x">> >>

DefaultIgnoreExtensions ==
  << <<".","j","p","g">>, <<".","j","p","e","g">>, <<".","p","n","g">>,
     <<".","g","i","f">>, <<".","b","m","p">>, <<".","s","v","g">>,
     <<".","m","p","4">>, <<".","a","v","i">>, <<".","m","o","v">> >>

\* is_valid_url without the test of the frontier
is_valid_url_ignoring_frontier(url) ==
  LET parsed == urlparse(url)
  IN  parsed.netloc # << >> /\ parsed.scheme # << >>

\* is_valid_url without the test of the host
is_valid_url_scheme_only(url) ==
  urlparse(url).scheme # << >> /\ url \notin visited_urls

is_valid_url(url) ==
  LET parsed == urlparse(url)
  IN  parsed.netloc # << >> /\ parsed.scheme # << >> /\ url \notin visited_urls

\* (path is bound to its value once, by the set it is drawn from)
get_file_extension(url) ==
  CHOOSE ext \in { Lower(splitext(path)) : path \in {urlparse(url).path} } : TRUE

is_document_url(url) == get_file_extension(url) \in Range(DOCUMENT_EXTENSIONS)

should_ignore_url(url) == get_file_extension(url) \in Range(IGNORE_EXTENSIONS)

\* the content-type test of crawl_page
IsDocumentContentType(ct) ==
  \/ InContentType("application/pdf", ct)
  \/ InContentType("application/msword", ct)
  \/ InContentType("application/vnd.openxmlformats", ct)

(***************************************************************************)
(* docscoop_cli.main: --include-ext / --exclude-ext                        *)
(***************************************************************************)
\* the whitespace of str.strip() that a string of the model holds
Whitespace == {" ", "\t", "\n", "\r", "\f"}

\* str.strip()
Strip(s) == RStrip(LStrip(s, Whitespace), Whitespace)

\* f".{ext.strip().lower()}" for each comma-separated name
DottedExts(names) == [ i \in DOMAIN names |-> <<".">> \o Lower(Strip(names[i])) ]

SelectNotIn(list, removed) == SelectSeq(list, LAMBDA e : e \notin Range(removed))

(***************************************************************************)
(* Initial state: the program has its arguments, nothing is constructed    *)
(***************************************************************************)
SiteA == [seed |-> UrlRoot, graph |-> "A"]
SiteLoop == [seed |-> UrlRoot, graph |-> "loop"]
SiteBrackets == [seed |-> UrlRoot, graph |-> "brackets"]

TorChoices ==
  {[use_tor |-> FALSE, launch_tor |-> FALSE],
   [use_tor |-> TRUE,  launch_tor |-> FALSE],
   [use_tor |-> TRUE,  launch_tor |-> TRUE]}

ExtChoices ==
  {[include_ext |-> << >>, exclude_ext |-> << >>],
   [include_ext |-> << <<"j","p","g">> >>, exclude_ext |-> << >>],
   [include_ext |-> << >>, exclude_ext |-> << <<" ","P","D","F">> >>]}

EnvChoices ==
  {[http |-> None, https |-> None],
   [http |-> "http://proxy:3128", https |-> ""]}

\* download_document returning None
NoFile == [url |-> << >>, attempt |-> 0, suffix |-> << >>]

IdleDownload == [state |-> "idle", url |-> << >>, attempts |-> 0, rotations |-> 0,
                 sessions |-> 0, path |-> NoFile]

DefaultExt == [include_ext |-> << >>, exclude_ext |-> << >>]
DefaultEnv == [http |-> None, https |-> None]
NoTor == [use_tor |-> FALSE, launch_tor |-> FALSE]

\* The runs explored, all at every depth: every site over a direct connection
\* with the default extension lists; each extension option on the sites
\* whose seed has an extension, and on the site of scenario A; each transport
\* request on the sites with at most one document; every transport
\* request and environment on the site of scenario A; and a caller that
\* calls scan_url again on the same instance, on the sites with at most
\* one document; the two diamond sites, one level deeper than the rest; and
\* the site whose links carry a fragment, a query and a tab, and the site of
\* scenario A with a blank before the seed; the site with a malformed link,
\* also with --anonymous at depth 1; and a malformed seed.
ScanRuns ==
  {[site |-> st, md |-> md, tor |-> NoTor, ext |-> DefaultExt, env |-> DefaultEnv,
    rescan |-> FALSE] :
     st \in {SiteA, SiteLoop} \cup
            {[seed |-> sd, graph |-> "cyclic"] :
               sd \in {UrlRoot, UrlPdf, UrlJpg, NotAUrl, NoHost}},
     md \in 0..MaxDepthArg} \cup
  {[site |-> st, md |-> md, tor |-> NoTor, ext |-> ext, env |-> DefaultEnv,
    rescan |-> FALSE] :
     st \in {SiteA, [seed |-> UrlPdf, graph |-> "cyclic"],
                    [seed |-> UrlJpg, graph |-> "cyclic"]},
     md \in 0..MaxDepthArg, ext \in ExtChoices} \cup
  {[site |-> st, md |-> md, tor |-> tor, ext |-> DefaultExt, env |-> DefaultEnv,
    rescan |-> FALSE] :
     st \in {SiteA, SiteLoop}, md \in 0..MaxDepthArg, tor \in TorChoices} \cup
  {[site |-> SiteA, md |-> 1, tor |-> tor, ext |-> DefaultExt, env |-> env,
    rescan |-> FALSE] :
     tor \in TorChoices, env \in EnvChoices} \cup
  {[site |-> st, md |-> md, tor |-> NoTor, ext |-> DefaultExt, env |-> DefaultEnv,
    rescan |-> TRUE] :
     st \in {SiteA, SiteLoop}, md \in 0..MaxDepthArg} \cup
  {[site |-> st, md |-> md, tor |-> NoTor, ext |-> DefaultExt, env |-> DefaultEnv,
    rescan |-> FALSE] :
     st \in {[seed |-> UrlRoot, graph |-> g] : g \in {"diamond", "diamond reversed"}},
     md \in 0..(MaxDepthArg + 1)} \cup
  {[site |-> st, md |-> md, tor |-> NoTor, ext |-> DefaultExt, env |-> DefaultEnv,
    rescan |-> FALSE] :
     st \in {[seed |-> UrlRoot, graph |-> "anchors"],
             [seed |-> UrlBlankRoot, graph |-> "A"], SiteBrackets},
     md \in 0..MaxDepthArg} \cup
  {[site |-> SiteBrackets, md |-> 1, tor |-> [use_tor |-> TRUE, launch_tor |-> FALSE],
    ext |-> DefaultExt, env |-> DefaultEnv, rescan |-> FALSE],
   [site |-> [seed |-> UrlBad, graph |-> "A"], md |-> 1, tor |-> NoTor, ext |-> DefaultExt,
    env |-> DefaultEnv, rescan |-> FALSE]}

\* the two programs: docscoop_cli.py and docscoop.py run as scripts
Entries == {"docscoop_cli", "docscoop"}

\* scenario A over a direct connection
ScenarioARun ==
  [site |-> SiteA, md |-> 1, tor |-> NoTor, ext |-> DefaultExt, env |-> DefaultEnv,
   rescan |-> FALSE]

\* scenario A with --anonymous
ScenarioATorRun ==
  [site |-> SiteA, md |-> 1, tor |-> [use_tor |-> TRUE, launch_tor |-> FALSE],
   ext |-> DefaultExt, env |-> DefaultEnv, rescan |-> FALSE]

\* Each scan above is run through docscoop_cli with GEMINI_API_KEY set; the
\* scans of the site of scenario A over a direct connection are also run
\* through docscoop.py; both programs are started without the key, with
\* each transport request; scenario A is run through docscoop_cli with
\* --output, and through both programs with a SIGINT sent during the scan.
\* In these runs the attempts of one download_document call fail at most
\* once; scenario A with --anonymous is also run with up to MaxAttempts - 1
\* failures in a row.
RunsFailingOnce ==
  {[scan |-> sr, entry |-> "docscoop_cli", api_key |-> TRUE, output |-> FALSE,
    sigint |-> FALSE] : sr \in ScanRuns} \cup
  {[scan |-> [site |-> SiteA, md |-> md, tor |-> NoTor, ext |-> DefaultExt,
              env |-> DefaultEnv, rescan |-> FALSE],
    entry |-> "docscoop", api_key |-> TRUE, output |-> FALSE, sigint |-> FALSE] :
     md \in 0..MaxDepthArg} \cup
  {[scan |-> [site |-> SiteA, md |-> 1, tor |-> tor, ext |-> DefaultExt,
              env |-> DefaultEnv, rescan |-> FALSE],
    entry |-> e, api_key |-> FALSE, output |-> FALSE, sigint |-> FALSE] :
     tor \in TorChoices, e \in Entries} \cup
  {[scan |-> ScenarioARun, entry |-> "docscoop_cli", api_key |-> TRUE,
    output |-> TRUE, sigint |-> FALSE]} \cup
  {[scan |-> ScenarioARun, entry |-> e, api_key |-> TRUE, output |-> FALSE,
    sigint |-> TRUE] : e \in Entries}

Runs ==
  {[run |-> rn, faults |-> 1] : rn \in RunsFailingOnce} \cup
  {[run |-> [scan |-> ScenarioATorRun, entry |-> "docscoop_cli", api_key |-> TRUE,
             output |-> FALSE, sigint |-> FALSE],
    faults |-> MaxAttempts - 1]}

\* the state before main, for one of the runs rs
InitOf(rs) ==
  /\ \E rf \in rs :
      LET rn  == rf.run
          run == rn.scan IN
       /\ args = [seed |-> run.site.seed, graph |-> run.site.graph,
                  max_depth |-> run.md,
                  use_tor |-> run.tor.use_tor, launch_tor |-> run.tor.launch_tor,
                  include_ext |-> run.ext.include_ext,
                  exclude_ext |-> run.ext.exclude_ext,
                  env |-> run.env, rescan |-> run.rescan,
                  entry |-> rn.entry, api_key |-> rn.api_key,
                  output |-> rn.output, sigint |-> rn.sigint,
                  faults |-> rf.faults]
       /\ environ = run.env
  /\ phase = "start"
  /\ exit_status = None
  /\ visited_urls = {}
  /\ document_urls = {}
  /\ DOCUMENT_EXTENSIONS = DefaultDocumentExtensions
  /\ IGNORE_EXTENSIONS = DefaultIgnoreExtensions
  /\ anonymous = FALSE
  /\ use_tor = FALSE
  /\ tor_process = None
  /\ previous_proxy = NoSnapshot
  /\ proc_alive = FALSE
  /\ activation = "not called"
  /\ session = NoSession
  /\ stack = << >>
  /\ crawlLog = << >>
  /\ dl = IdleDownload
  /\ processed = {}
  /\ results = {}
  /\ temp_files = EmptyBag
  /\ scans = 0

Init == InitOf(Runs)

crawlVars == <<visited_urls, document_urls, stack, crawlLog>>
extVars == <<DOCUMENT_EXTENSIONS, IGNORE_EXTENSIONS>>
connVars == <<use_tor, tor_process, previous_proxy, environ, proc_alive, activation>>
scanVars == <<dl, processed, results, temp_files>>

(***************************************************************************)
(* main of docscoop_cli.py and of docscoop.py: the test of the API key     *)
(***************************************************************************)
\* docscoop_cli: sys.exit(main()) with main returning 1
\* docscoop: main() returning None, the script then ends normally
ExitWithoutKey(entry) == IF entry = "docscoop_cli" THEN 1 ELSE 0

Main ==
  /\ phase = "start"
  /\ IF ~args.api_key
     THEN /\ phase' = "exited"
          /\ exit_status' = ExitWithoutKey(args.entry)
     ELSE /\ phase' = "new"
          /\ UNCHANGED exit_status
  /\ UNCHANGED <<args, scans, crawlVars, extVars, connVars, anonymous, session, scanVars>>

(***************************************************************************)
(* DocScoop.__init__                                                       *)
(***************************************************************************)
Construct ==
  /\ phase = "new"
  /\ \E probe \in BOOLEAN, launchOk \in BOOLEAN, verified \in BOOLEAN :
       LET c0 == NewConnection(args.use_tor, environ)
           c  == IF args.use_tor
                 THEN start_tor(c0, args.launch_tor, probe, launchOk, verified)
                 ELSE c0
       IN  /\ anonymous' = args.use_tor
           /\ use_tor' = c.use_tor
           /\ tor_process' = c.tor_process
           /\ previous_proxy' = c.previous_proxy
           /\ environ' = c.environ
           /\ proc_alive' = c.proc_alive
           /\ activation' = c.activation
           /\ IF c.raised
              THEN phase' = "crashed" /\ UNCHANGED session
              ELSE /\ phase' = IF args.entry = "docscoop_cli" THEN "constructed"
                                ELSE "configured"
                   /\ \E choice \in Draws(c.use_tor) :
                        session' = IF args.use_tor THEN get_session(c.use_tor, choice)
                                   ELSE PlainSession
  /\ UNCHANGED <<args, scans, exit_status, crawlVars, extVars, scanVars>>

(***************************************************************************)
(* docscoop_cli.main: extension options, applied after construction        *)
(***************************************************************************)
ProcessExtensions ==
  /\ phase = "constructed"
  /\ phase' = "configured"
  /\ LET included == IF args.include_ext # << >>
                     THEN DOCUMENT_EXTENSIONS \o DottedExts(args.include_ext)
                     ELSE DOCUMENT_EXTENSIONS
         excluded == DottedExts(args.exclude_ext)
     IN  IF args.exclude_ext # << >>
         THEN /\ DOCUMENT_EXTENSIONS' = SelectNotIn(included, excluded)
              /\ IGNORE_EXTENSIONS' = IGNORE_EXTENSIONS \o excluded
         ELSE /\ DOCUMENT_EXTENSIONS' = included
              /\ UNCHANGED IGNORE_EXTENSIONS
  /\ UNCHANGED <<args, scans, exit_status, crawlVars, connVars, anonymous, session, scanVars>>

(***************************************************************************)
(* DocScoop.scan_url / crawl_page                                          *)
(***************************************************************************)
Frame(url, depth) == [url |-> url, depth |-> depth, pc |-> "enter", links |-> << >>]

Event(ev, url, depth, kind, status, ctype) ==
  [ev |-> ev, url |-> url, depth |-> depth, kind |-> kind, status |-> status,
   ctype |-> ctype]

Top == stack[Len(stack)]
Pop == SubSeq(stack, 1, Len(stack) - 1)
SetTop(f) == [stack EXCEPT ![Len(stack)] = f]

\* calls of scan_url the caller makes: main one, a caller that scans again two
ScansOf(rescan) == IF rescan THEN 2 ELSE 1

\* scan_url up to the call crawl_page(start_url, max_depth=max_depth); the
\* caller makes the call once the instance is configured, and again after a
\* scan has returned when it scans more than once
ScanUrl ==
  /\ phase = "configured" \/ (phase = "done" /\ scans < ScansOf(args.rescan))
  /\ phase' = "crawl"
  /\ scans' = scans + 1
  /\ stack' = <<Frame(args.seed, 1)>>
  /\ processed' = {}
  /\ results' = {}
  /\ UNCHANGED <<args, exit_status, visited_urls, document_urls, crawlLog, extVars, connVars,
                 anonymous, session, dl, temp_files>>

\* the calls of crawl_page up to the innermost one that is inside its try
\* block, in the link loop; none when no call is
RECURSIVE InTry(_)
InTry(frames) ==
  IF frames = << >> THEN << >>
  ELSE IF frames[Len(frames)].pc = "loop" THEN frames
  ELSE InTry(SubSeq(frames, 1, Len(frames) - 1))

\* crawl_page testing for hypertext before testing for a document
ResponseClassHtmlFirst(url, o) ==
  IF o.kind = "error" THEN "error"
  ELSE IF o.status # 200 THEN "failed"
  ELSE IF InContentType("text/html", o.ctype) THEN "html"
  ELSE IF is_document_url(url) \/ IsDocumentContentType(o.ctype) THEN "document"
  ELSE "other"

\* crawl_page raising on a non-200 status (response.raise_for_status())
ResponseClassRaiseForStatus(url, o) ==
  IF o.kind = "error" \/ o.status # 200 THEN "error"
  ELSE IF is_document_url(url) \/ IsDocumentContentType(o.ctype) THEN "document"
  ELSE IF InContentType("text/html", o.ctype) THEN "html"
  ELSE "other"

\* crawl_page: where the outcome o of session.get(url) takes the body of the
\* try block
ResponseClass(url, o) ==
  IF o.kind = "error" THEN "error"
  ELSE IF o.status # 200 THEN "failed"
  ELSE IF is_document_url(url) \/ IsDocumentContentType(o.ctype) THEN "document"
  ELSE IF InContentType("text/html", o.ctype) THEN "html"
  ELSE "other"

\* crawl_page: the exception handler of the call on top of frames, up to
\* its recursive call; log is the history with the exception
ExceptionHandler(frames, log, r, choice) ==
  LET f       == frames[Len(frames)]
      rot     == renew_tor_identity(use_tor, r)
      \* for a rotation the status field holds the seconds slept
      rotated == Event("rotate", f.url, f.depth, r, rot.slept, "")
      renewed == Event("session", f.url, f.depth, "", 0, "")
  IN  IF anonymous /\ f.depth <= 1 /\ rot.raised
      THEN /\ crawlLog' = log \o <<rotated>>
           /\ phase' = "crashed"
           /\ stack' = frames
           /\ UNCHANGED session
      ELSE IF anonymous /\ f.depth <= 1
      THEN /\ crawlLog' = log \o (IF rot.attempted THEN <<rotated>> ELSE << >>) \o
                          <<renewed>>
           /\ session' = get_session(use_tor, choice)
           /\ stack' = [frames EXCEPT ![Len(frames)] =
                                        [f EXCEPT !.pc = "retried", !.links = << >>]] \o
                       <<Frame(f.url, f.depth)>>
           /\ UNCHANGED phase
      ELSE /\ crawlLog' = log
           /\ stack' = SubSeq(frames, 1, Len(frames) - 1)
           /\ UNCHANGED <<session, phase>>

\* crawl_page: the guard and the marking of the URL as visited; urlparse
\* raising in is_valid_url leaves the call, for the handler of the nearest
\* caller that is inside its try block, or for the caller of scan_url
CrawlEnter ==
  /\ phase = "crawl" /\ stack # << >> /\ Top.pc = "enter"
  /\ IF Top.depth > args.max_depth
     THEN /\ stack' = Pop
          /\ UNCHANGED <<visited_urls, crawlLog, session, phase>>
     ELSE IF urlparse_raises(Top.url)
     THEN /\ Len(crawlLog) < MaxLog
          /\ UNCHANGED visited_urls
          /\ \E r \in RotationOutcomes, choice \in Draws(use_tor) :
               LET raising == Event("raise", Top.url, Top.depth, "error", 0, "")
               IN  IF InTry(Pop) = << >>
                   THEN /\ crawlLog' = crawlLog \o <<raising>>
                        /\ phase' = "crashed"
                        /\ UNCHANGED <<session, stack>>
                   ELSE ExceptionHandler(InTry(Pop), crawlLog \o <<raising>>, r, choice)
     ELSE IF ~is_valid_url(Top.url)
     THEN /\ stack' = Pop
          /\ UNCHANGED <<visited_urls, crawlLog, session, phase>>
     ELSE /\ visited_urls' = visited_urls \cup {Top.url}
          /\ stack' = SetTop([Top EXCEPT !.pc = "fetch"])
          /\ UNCHANGED <<crawlLog, session, phase>>
  /\ UNCHANGED <<args, scans, exit_status, document_urls, extVars, connVars,
                 anonymous, scanVars>>

\* crawl_page: session.get and what follows it up to the link loop, or the
\* exception handler up to its recursive call
CrawlFetch ==
  /\ phase = "crawl" /\ stack # << >> /\ Top.pc = "fetch"
  /\ Len(crawlLog) < MaxLog
  /\ \E o \in Served(args.graph), r \in RotationOutcomes, choice \in Draws(use_tor) :
       LET fetched == Event("fetch", Top.url, Top.depth, o.kind, o.status, o.ctype)
           parsed  == Event("extract", Top.url, Top.depth, "", 0, "")
           class   == ResponseClass(Top.url, o)
       IN  CASE class = "error" ->
                  /\ ExceptionHandler(stack, crawlLog \o <<fetched>>, r, choice)
                  /\ UNCHANGED document_urls
             [] class = "document" ->
                  /\ crawlLog' = crawlLog \o <<fetched>>
                  /\ document_urls' = document_urls \cup {Top.url}
                  /\ stack' = Pop
                  /\ UNCHANGED <<session, phase>>
             [] class = "html" ->
                  /\ crawlLog' = crawlLog \o <<fetched, parsed>>
                  /\ stack' = SetTop([Top EXCEPT !.pc = "loop",
                                                 !.links = PageLinks(args.graph, Top.url)])
                  /\ UNCHANGED <<document_urls, session, phase>>
             [] OTHER ->
                  /\ crawlLog' = crawlLog \o <<fetched>>
                  /\ stack' = Pop
                  /\ UNCHANGED <<document_urls, session, phase>>
  /\ UNCHANGED <<args, scans, exit_status, visited_urls, extVars, connVars, anonymous, scanVars>>

\* the loop body testing the allow-list before the ignore list
ClassifyLinkDocumentFirst(next_url, rest) ==
  IF is_document_url(next_url)
  THEN /\ document_urls' = document_urls \cup {next_url}
       /\ stack' = SetTop(rest)
  ELSE IF should_ignore_url(next_url)
  THEN stack' = SetTop(rest) /\ UNCHANGED document_urls
  ELSE IF Top.depth < args.max_depth
  THEN /\ stack' = SetTop(rest) \o <<Frame(next_url, Top.depth + 1)>>
       /\ UNCHANGED document_urls
  ELSE stack' = SetTop(rest) /\ UNCHANGED document_urls

\* the loop body recursing only while depth + 1 < max_depth
ClassifyLinkStoppingEarly(next_url, rest) ==
  IF should_ignore_url(next_url)
  THEN stack' = SetTop(rest) /\ UNCHANGED document_urls
  ELSE IF is_document_url(next_url)
  THEN /\ document_urls' = document_urls \cup {next_url}
       /\ stack' = SetTop(rest)
  ELSE IF Top.depth + 1 < args.max_depth
  THEN /\ stack' = SetTop(rest) \o <<Frame(next_url, Top.depth + 1)>>
       /\ UNCHANGED document_urls
  ELSE stack' = SetTop(rest) /\ UNCHANGED document_urls

\* the loop body recursing into a link whatever the depth
ClassifyLinkRecursingAlways(next_url, rest) ==
  IF should_ignore_url(next_url)
  THEN stack' = SetTop(rest) /\ UNCHANGED document_urls
  ELSE IF is_document_url(next_url)
  THEN /\ document_urls' = document_urls \cup {next_url}
       /\ stack' = SetTop(rest)
  ELSE /\ stack' = SetTop(rest) \o <<Frame(next_url, Top.depth + 1)>>
       /\ UNCHANGED document_urls

\* crawl_page: the body of the loop for the link resolved to next_url;
\* rest is the frame with that link consumed
ClassifyLink(next_url, rest) ==
  IF should_ignore_url(next_url)
  THEN stack' = SetTop(rest) /\ UNCHANGED document_urls
  ELSE IF is_document_url(next_url)
  THEN /\ document_urls' = document_urls \cup {next_url}
       /\ stack' = SetTop(rest)
  ELSE IF Top.depth < args.max_depth
  THEN /\ stack' = SetTop(rest) \o <<Frame(next_url, Top.depth + 1)>>
       /\ UNCHANGED document_urls
  ELSE stack' = SetTop(rest) /\ UNCHANGED document_urls

\* crawl_page: the loop body raises ValueError for the link href of the page
\* at base, in urljoin or in the urlparse of get_file_extension
LinkRaises(base, href) ==
  /\ HasBracket(base) \/ HasBracket(href)
  /\ urljoin_raises(base, href) \/ urlparse_raises(urljoin(base, href))

\* crawl_page: one iteration of the loop over the links of the page, or the
\* return when the links are exhausted, or the exception handler up to its
\* recursive call when the link makes the loop body raise
CrawlLink ==
  /\ phase = "crawl" /\ stack # << >> /\ Top.pc = "loop"
  /\ IF Top.links = << >>
     THEN stack' = Pop /\ UNCHANGED <<document_urls, crawlLog, session, phase>>
     ELSE IF LinkRaises(Top.url, Head(Top.links))
     THEN /\ Len(crawlLog) < MaxLog
          /\ UNCHANGED document_urls
          /\ \E r \in RotationOutcomes, choice \in Draws(use_tor) :
               ExceptionHandler(stack,
                  crawlLog \o <<Event("raise", Top.url, Top.depth, "error", 0, "")>>,
                  r, choice)
     ELSE /\ \E next_url \in {urljoin(Top.url, Head(Top.links))} :
               ClassifyLink(next_url, [Top EXCEPT !.links = Tail(Top.links)])
          /\ UNCHANGED <<crawlLog, session, phase>>
  /\ UNCHANGED <<args, scans, exit_status, visited_urls, extVars, connVars, anonymous,
                 scanVars>>

\* crawl_page: return from the exception handler after its recursive call
CrawlRetryReturn ==
  /\ phase = "crawl" /\ stack # << >> /\ Top.pc = "retried"
  /\ stack' = Pop
  /\ UNCHANGED <<args, scans, exit_status, phase, visited_urls, document_urls, crawlLog, extVars,
                 connVars, anonymous, session, scanVars>>

\* scan_url: crawl_page has returned, results = []
CrawlDone ==
  /\ phase = "crawl" /\ stack = << >>
  /\ phase' = "download"
  /\ UNCHANGED <<args, scans, exit_status, crawlVars, extVars, connVars, anonymous, session, scanVars>>

(***************************************************************************)
(* DocScoop.download_document and the document loop of scan_url            *)
(***************************************************************************)
\* the fetch outcomes, and the body stream raising after the temporary file
\* was created
DownloadOutcomes ==
  FetchOutcomes \cup
  {[kind |-> "write error", status |-> 200, ctype |-> ct] : ct \in ContentTypes}

\* suffix of the temporary file
TempSuffix(url, ct) ==
  LET ext == get_file_extension(url)
  IN  IF ext # << >> THEN ext
      ELSE IF InContentType("application/pdf", ct) THEN <<".","p","d","f">>
      ELSE IF InContentType("application/msword", ct) THEN <<".","d","o","c">>
      ELSE IF InContentType("application/vnd.openxmlformats", ct) THEN <<".","d","o","c","x">>
      ELSE <<".","t","x","t">>

\* scan_url: the loop takes the next document and calls download_document
DownloadStart ==
  /\ phase = "download" /\ dl.state = "idle"
  /\ \E url \in document_urls \ processed :
       dl' = [IdleDownload EXCEPT !.state = "running", !.url = url]
  /\ UNCHANGED <<args, scans, exit_status, phase, crawlVars, extVars, connVars, anonymous, session,
                 processed, results, temp_files>>

\* what the attempt after n attempts of a call can meet: anything, but a
\* response once the attempts of the call have failed args.faults times
AttemptOutcomes(n) == IF n < args.faults THEN DownloadOutcomes ELSE Responses

\* download_document: one attempt, with the exception handler; the file is
\* identified by its URL, attempt and suffix, its name is fresh;
\* get_file_extension does not raise here, urlparse has accepted every URL
\* of document_urls before (l.85 or l.117)
DownloadAttempt ==
  /\ phase = "download" /\ dl.state = "running"
  /\ \E o \in AttemptOutcomes(dl.attempts), r \in RotationOutcomes,
        choice \in Draws(use_tor) :
       LET n    == dl.attempts + 1
           rot  == renew_tor_identity(use_tor, r)
           file == [url |-> dl.url, attempt |-> n, suffix |-> TempSuffix(dl.url, o.ctype)]
       IN  IF o.kind = "response" /\ o.status # 200
           THEN /\ dl' = [dl EXCEPT !.attempts = n, !.state = "returned", !.path = NoFile]
                /\ UNCHANGED <<session, temp_files, phase>>
           ELSE IF o.kind = "response"
           THEN /\ dl' = [dl EXCEPT !.attempts = n, !.state = "returned", !.path = file]
                /\ temp_files' = temp_files (+) SetToBag({file})
                /\ UNCHANGED <<session, phase>>
           ELSE /\ temp_files' = IF o.kind = "write error"
                                 THEN temp_files (+) SetToBag({file})
                                 ELSE temp_files
                /\ IF anonymous /\ rot.raised
                   THEN /\ dl' = [dl EXCEPT !.attempts = n,
                                            !.rotations = IF rot.attempted THEN @ + 1 ELSE @]
                        /\ phase' = "crashed"
                        /\ UNCHANGED session
                   ELSE IF anonymous
                   THEN /\ dl' = [dl EXCEPT !.attempts = n,
                                            !.rotations = IF rot.attempted THEN @ + 1 ELSE @,
                                            !.sessions = @ + 1]
                        /\ session' = get_session(use_tor, choice)
                        /\ UNCHANGED phase
                   ELSE /\ dl' = [dl EXCEPT !.attempts = n, !.state = "returned",
                                            !.path = NoFile]
                        /\ UNCHANGED <<session, phase>>
  /\ UNCHANGED <<args, scans, exit_status, crawlVars, extVars, connVars, anonymous, processed,
                 results>>

\* extract_text_from_document: the text of the document, a text of fewer
\* than 10 characters, or "" after an exception of the parser
ExtractOutcomes == {"text", "short", "parser error"}

\* gemini_model.generate_content: an answer whose first line holds "yes",
\* another answer, or an exception
AnalysisOutcomes == {"yes", "no", "api error"}

\* analyze_document_content: is_sensitive for the extracted text x and the
\* outcome a of the call of the model, which is made for a text only
analyze_document_content(x, a) == x = "text" /\ a = "yes"

\* scan_url ending the scan at the first document whose download failed
ProcessDocumentAborting ==
  /\ phase = "download" /\ dl.state = "returned"
  /\ processed' = processed \cup {dl.url}
  /\ dl' = IdleDownload
  /\ IF dl.path = NoFile
     THEN phase' = "done" /\ UNCHANGED <<results, temp_files>>
     ELSE /\ \E x \in ExtractOutcomes, a \in AnalysisOutcomes :
               results' = results \cup
                  {[url |-> dl.url, is_sensitive |-> analyze_document_content(x, a)]}
          /\ temp_files' = temp_files (-) SetToBag({dl.path})
          /\ UNCHANGED phase
  /\ UNCHANGED <<args, scans, exit_status, crawlVars, extVars, connVars, anonymous, session>>

\* scan_url: the rest of the loop body for the document just downloaded:
\* continue without a file; else extraction, analysis, the result entry,
\* and the removal of the temporary file in the finally
ProcessDocument ==
  /\ phase = "download" /\ dl.state = "returned"
  /\ processed' = processed \cup {dl.url}
  /\ dl' = IdleDownload
  /\ IF dl.path = NoFile
     THEN UNCHANGED <<results, temp_files>>
     ELSE /\ \E x \in ExtractOutcomes, a \in AnalysisOutcomes :
               results' = results \cup
                  {[url |-> dl.url, is_sensitive |-> analyze_document_content(x, a)]}
          /\ temp_files' = temp_files (-) SetToBag({dl.path})
  /\ UNCHANGED <<args, scans, exit_status, phase, crawlVars, extVars, connVars, anonymous, session>>

\* scan_url: return results
ScanReturn ==
  /\ phase = "download" /\ dl.state = "idle"
  /\ processed = document_urls
  /\ phase' = "done"
  /\ UNCHANGED <<args, scans, exit_status, crawlVars, extVars, connVars, anonymous, session, scanVars>>

\* the manager's fields and the process-wide state, as one connection
Conn ==
  [use_tor |-> use_tor, tor_process |-> tor_process,
   previous_proxy |-> previous_proxy, environ |-> environ,
   proc_alive |-> proc_alive, raised |-> FALSE, activation |-> activation]

\* the connection c written back to the state
SetConn(c) ==
  /\ use_tor' = c.use_tor
  /\ tor_process' = c.tor_process
  /\ previous_proxy' = c.previous_proxy
  /\ environ' = c.environ
  /\ proc_alive' = c.proc_alive
  /\ activation' = c.activation

\* save_results_to_csv: the file is written, or open() or the writer raises
SaveOutcomes == {"saved", "io error"}

\* the exit status after scan_url returned, or after an exception left the
\* program (crashed): docscoop_cli.main saves the results when --output is
\* given and returns 1 from its handler when that raises
ExitStatus(entry, crashed, output, saved) ==
  IF crashed THEN 1
  ELSE IF entry = "docscoop_cli" /\ output /\ saved = "io error" THEN 1
  ELSE 0

\* the exit status after a SIGINT during the scan: docscoop_cli.main returns
\* 130 from its KeyboardInterrupt handler, docscoop.py has no handler and
\* the process ends by the signal
InterruptStatus(entry) == IF entry = "docscoop_cli" THEN 130 ELSE -2

\* SIGINT while scan_url runs, outside the try of the finally of the
\* document loop: KeyboardInterrupt passes the handlers of crawl_page and
\* download_document, which catch Exception; the finally of the document
\* loop removes the file it was given when the loop body had entered its
\* try; a file that download_document had created stays; __del__ runs as
\* the program ends
Interrupt ==
  /\ args.sigint
  /\ phase \in {"crawl", "download"}
  /\ phase' = "exited"
  /\ exit_status' = InterruptStatus(args.entry)
  /\ \E in_try \in BOOLEAN, created \in BOOLEAN, ct \in ContentTypes :
       temp_files' =
          IF phase = "download" /\ dl.state = "returned" /\ dl.path # NoFile /\ in_try
          THEN temp_files (-) SetToBag({dl.path})
          ELSE IF phase = "download" /\ dl.state = "running" /\ created
          THEN temp_files (+) SetToBag({[url |-> dl.url, attempt |-> dl.attempts + 1,
                                         suffix |-> TempSuffix(dl.url, ct)]})
          ELSE temp_files
  /\ SetConn(IF anonymous THEN stop_tor(Conn) ELSE Conn)
  /\ UNCHANGED <<args, scans, crawlVars, extVars, anonymous, session, dl, processed, results>>

\* SIGINT while the finally of the document loop is inside its own try
\* (l.278-281): the bare except catches KeyboardInterrupt and the loop goes
\* on with the next document; the body had completed, so the result is
\* recorded; the file is removed when the signal came after os.unlink had
\* removed it and stays when it came before
InterruptInCleanup ==
  /\ args.sigint
  /\ phase = "download" /\ dl.state = "returned" /\ dl.path # NoFile
  /\ processed' = processed \cup {dl.url}
  /\ dl' = IdleDownload
  /\ \E x \in ExtractOutcomes, a \in AnalysisOutcomes :
       results' = results \cup
          {[url |-> dl.url, is_sensitive |-> analyze_document_content(x, a)]}
  /\ \E unlinked \in BOOLEAN :
       temp_files' = IF unlinked THEN temp_files (-) SetToBag({dl.path})
                     ELSE temp_files
  /\ UNCHANGED <<args, scans, exit_status, phase, crawlVars, extVars, connVars, anonymous, session>>

\* the end of main after scan_url returned, or of the program after an
\* exception; DocScoop.__del__, also run for the instance whose __init__
\* raised
Finalize ==
  /\ phase \in {"done", "crashed"}
  /\ phase' = "exited"
  /\ \E saved \in SaveOutcomes :
       exit_status' = ExitStatus(args.entry, phase = "crashed", args.output, saved)
  /\ LET c0 == [use_tor |-> use_tor, tor_process |-> tor_process,
                previous_proxy |-> previous_proxy, environ |-> environ,
                proc_alive |-> proc_alive, raised |-> FALSE,
                activation |-> activation]
         c  == IF anonymous THEN stop_tor(c0) ELSE c0
     IN  /\ use_tor' = c.use_tor
         /\ tor_process' = c.tor_process
         /\ previous_proxy' = c.previous_proxy
         /\ environ' = c.environ
         /\ proc_alive' = c.proc_alive
         /\ activation' = c.activation
  /\ UNCHANGED <<args, scans, crawlVars, extVars, anonymous, session, scanVars>>

Next ==
  \/ Main
  \/ Construct
  \/ ProcessExtensions
  \/ ScanUrl
  \/ CrawlEnter
  \/ CrawlFetch
  \/ CrawlLink
  \/ CrawlRetryReturn
  \/ CrawlDone
  \/ DownloadStart
  \/ DownloadAttempt
  \/ ProcessDocument
  \/ ScanReturn
  \/ Interrupt
  \/ InterruptInCleanup
  \/ Finalize

Spec == Init /\ [][Next]_vars

\* the runs are those failing at most once per download, the crawl is over
\* before the first one
LiveInit == InitOf({[run |-> rn, faults |-> 1] : rn \in RunsFailingOnce})

\* the steps of the calls of crawl_page
CrawlStep == CrawlEnter \/ CrawlFetch \/ CrawlLink \/ CrawlRetryReturn \/ CrawlDone

\* the interpreter keeps running a call of crawl_page while it has a step to
\* take; nothing is assumed of the steps outside the crawl
LiveSpec == LiveInit /\ [][Next]_vars /\ WF_vars(CrawlStep)

(***************************************************************************)
(* The manager used on its own, as by the context manager                  *)
(* anonymous_connection(use_tor, launch_tor): the manager is created,      *)
(* activated, used by the body of the with block, and deactivated on the   *)
(* way out; a caller holding the manager may deactivate it once more.      *)
(***************************************************************************)
\* conn = AnonymousConnection(use_tor=use_tor)
ManagerInit ==
  /\ \E u \in BOOLEAN, l \in BOOLEAN, env \in [http : EnvValues, https : EnvValues] :
       /\ args = [seed |-> UrlRoot, graph |-> "A", max_depth |-> 0,
                  use_tor |-> u, launch_tor |-> l,
                  include_ext |-> << >>, exclude_ext |-> << >>,
                  env |-> env, rescan |-> FALSE,
                  entry |-> "anonymous_connection", api_key |-> TRUE,
                  output |-> FALSE, sigint |-> FALSE, faults |-> 0]
       /\ environ = env
       /\ use_tor = u
  /\ phase = "manager created"
  /\ exit_status = None
  /\ visited_urls = {}
  /\ document_urls = {}
  /\ DOCUMENT_EXTENSIONS = DefaultDocumentExtensions
  /\ IGNORE_EXTENSIONS = DefaultIgnoreExtensions
  /\ anonymous = FALSE
  /\ tor_process = None
  /\ previous_proxy = NoSnapshot
  /\ proc_alive = FALSE
  /\ activation = "not called"
  /\ session = NoSession
  /\ stack = << >>
  /\ crawlLog = << >>
  /\ dl = IdleDownload
  /\ processed = {}
  /\ results = {}
  /\ temp_files = EmptyBag
  /\ scans = 0

\* conn.start_tor(launch=launch_tor); an exception goes to the finally
ManagerStart ==
  /\ phase = "manager created"
  /\ \E probe \in BOOLEAN, launchOk \in BOOLEAN, verified \in BOOLEAN :
       LET c == start_tor(Conn, args.launch_tor, probe, launchOk, verified)
       IN  /\ SetConn(c)
           /\ phase' = IF c.raised THEN "manager failing" ELSE "manager active"
  /\ UNCHANGED <<args, scans, exit_status, crawlVars, extVars, anonymous, session, scanVars>>

\* the holder of the manager asks it for a session
ManagerGetSession ==
  /\ phase \in {"manager active", "manager stopped"}
  /\ \E choice \in Draws(use_tor) : session' = get_session(use_tor, choice)
  /\ UNCHANGED <<args, scans, exit_status, phase, crawlVars, extVars, connVars, anonymous, scanVars>>

\* conn.stop_tor(): in the finally of the context manager, or by a caller
\* that never activated the manager
ManagerStop ==
  /\ phase \in {"manager created", "manager active", "manager failing"}
  /\ phase' = "manager stopped"
  /\ SetConn(stop_tor(Conn))
  /\ UNCHANGED <<args, scans, exit_status, crawlVars, extVars, anonymous, session, scanVars>>

\* conn.stop_tor() called once more
ManagerStopAgain ==
  /\ phase = "manager stopped"
  /\ phase' = "manager stopped twice"
  /\ SetConn(stop_tor(Conn))
  /\ UNCHANGED <<args, scans, exit_status, crawlVars, extVars, anonymous, session, scanVars>>

ManagerNext ==
  \/ ManagerStart
  \/ ManagerGetSession
  \/ ManagerStop
  \/ ManagerStopAgain

ManagerSpec == ManagerInit /\ [][ManagerNext]_vars

TypeOK ==
  /\ phase \in {"start", "new", "crashed", "constructed", "configured", "crawl", "download",
                "done", "exited", "manager created", "manager active",
                "manager failing", "manager stopped", "manager stopped twice"}
  /\ visited_urls \subseteq Urls
  /\ document_urls \subseteq Urls
  /\ anonymous \in BOOLEAN /\ use_tor \in BOOLEAN /\ proc_alive \in BOOLEAN
  /\ dl.attempts \in 0..MaxAttempts
  /\ scans \in 0..2

(***************************************************************************)
(* Reading the crawl history                                               *)
(***************************************************************************)
\* the program was ended by a SIGINT during the scan
Interrupted == phase = "exited" /\ exit_status = InterruptStatus(args.entry)

CrawlOver == phase \in {"download", "done"} \/ (phase = "exited" /\ ~Interrupted)

IsFetch(e) == e.ev = "fetch"

\* places in the history where url was fetched
Fetches(url) == { i \in DOMAIN crawlLog : IsFetch(crawlLog[i]) /\ crawlLog[i].url = url }

EventsOf(ev) == { i \in DOMAIN crawlLog : crawlLog[i].ev = ev }

\* anonymity is active: requested and not fallen back
AnonymityActive == anonymous /\ use_tor

\* the first fetch of the crawl, at depth 1, raised a network error
FirstFetchFailed ==
  /\ crawlLog # << >>
  /\ IsFetch(crawlLog[1]) /\ crawlLog[1].kind = "error" /\ crawlLog[1].depth = 1

(***************************************************************************)
(* C1: with anonymity active, a network error on the fetch of a URL at     *)
(* depth 1 is followed by exactly one identity rotation and then exactly   *)
(* one second fetch of the same URL at the same depth; if that one fails   *)
(* too, nothing more is fetched or rotated and the document set is empty.  *)
(***************************************************************************)
C1_RotateThenRetryOnce ==
  (CrawlOver /\ AnonymityActive /\ FirstFetchFailed) =>
     /\ Cardinality(EventsOf("rotate")) = 1
     /\ Cardinality(Fetches(crawlLog[1].url)) = 2
     /\ \E i \in EventsOf("rotate") : \E j \in Fetches(crawlLog[1].url) :
          /\ i < j
          /\ crawlLog[j].depth = 1
          /\ crawlLog[j].kind = "error" =>
               /\ document_urls = {}
               /\ \A k \in DOMAIN crawlLog : k > j => crawlLog[k].ev = "session"

(***************************************************************************)
(* C2: every call of crawl_page made by a scan ends, on every site, with   *)
(* every outcome of every fetch, with anonymity on or off: it returns, or, *)
(* when urlparse rejects the seed, it is left by the ValueError.           *)
(***************************************************************************)
\* the longest page of the sites explored
LongestPage ==
  LET lens == { Len(PageLinks(g, u)) : g \in Graphs, u \in Urls }
  IN  CHOOSE n \in lens : \A m \in lens : m <= n

\* what a frame of crawl_page still has to do, at most, before it returns,
\* not counting the URLs it will mark
FrameWeight(f) ==
  CASE f.pc = "enter"   -> 1
    [] f.pc = "retried" -> 1
    [] f.pc = "loop"    -> 1 + 2 * Len(f.links)
    [] f.pc = "fetch"   -> 2 + 2 * LongestPage

RECURSIVE StackWeight(_)
StackWeight(frames) ==
  IF frames = << >> THEN 0
  ELSE FrameWeight(Head(frames)) + StackWeight(Tail(frames))

\* a natural number that every step of the crawl decreases: the URLs not yet
\* in the frontier weigh more than any frame
Variant ==
  (3 + 2 * LongestPage) * Cardinality(Urls \ visited_urls) + StackWeight(stack)

C2_CrawlTerminates ==
  /\ [][(phase = "crawl" /\ phase' = "crawl") => Variant' < Variant]_vars
  /\ (phase = "crawl") ~> \/ phase = "download"
                          \/ Interrupted
                          \/ phase = "crashed" /\ urlparse_raises(args.seed)

\* a crawl that met a cycle and a failed fetch under anonymity has returned
C2_Witness ==
  /\ phase = "download"
  /\ AnonymityActive
  /\ args.graph = "loop"
  /\ UrlP \in visited_urls
  /\ \E i \in Fetches(UrlP) : crawlLog[i].kind = "error"

(***************************************************************************)
(* C3: no URL is fetched by the crawl more than once, and the frontier     *)
(* never loses an element.                                                 *)
(***************************************************************************)
FetchedAtMostOnce == \A i, j \in EventsOf("fetch") : crawlLog[i].url = crawlLog[j].url => i = j

C3_NoRefetchFrontierGrows ==
  [][visited_urls \subseteq visited_urls' /\ FetchedAtMostOnce']_vars

\* /q is linked from two parsed pages and was fetched once
C3_Witness ==
  /\ CrawlOver
  /\ \E i, j \in EventsOf("extract") : crawlLog[i].url = UrlRoot /\ crawlLog[j].url = UrlP
  /\ Cardinality(Fetches(UrlQ)) = 1

(***************************************************************************)
(* C4: is_valid_url(U) is true exactly when U has a non-empty scheme and a *)
(* non-empty host and is not in the frontier.                              *)
(***************************************************************************)
\* U reads scheme "://" host ...: a letter, then scheme characters up to the
\* first ":", then "//" and at least one character of host
SchemeAndHostIn(U) ==
  \E k \in 2..(Len(U) - 3) :
     /\ U[k] = ":" /\ U[k + 1] = "/" /\ U[k + 2] = "/"
     /\ U[k + 3] \notin {"/", "?", "#"}
     /\ U[1] \in Range(UpperChars) \cup Range(LowerChars)
     /\ \A i \in 1..(k - 1) : U[i] \in SchemeChars

\* U read without the blanks before it and the tabs and line ends in it
HasSchemeAndHost(U) == SchemeAndHostIn(Cleaned(U))

UrlSamples ==
  Urls \cup {<< >>, <<"/","/","a","/","p">>, HostA, <<"h","t","t","p",":","/","/">>,
             <<"h","t","t","p",":","/","/","/","p">>,
             <<"1","h",":","/","/","a">>, <<"H","T","T","P",":","/","/","a","/">>,
             <<"\t">> \o UrlP, <<"h","t","\n","t","p",":","/","/","a">>,
             <<" ">>, <<"h","t","t","p",":","/","/","?","x">>,
             <<"h","t","t","p",":","/","/","a","#","f">>}

C5_SeedFetchedOnceAtDepthZero ==
  (CrawlOver /\ args.max_depth = 0) =>
     /\ HasSchemeAndHost(args.seed) =>
          /\ Cardinality(Fetches(args.seed)) = 1
          /\ EventsOf("fetch") = Fetches(args.seed)
          /\ EventsOf("extract") = {}
     /\ ~HasSchemeAndHost(args.seed) => EventsOf("fetch") = {}

(***************************************************************************)
(* C6: no URL whose extension is in the ignore list is ever in the         *)
(* frontier or in the document set, seed or link, whatever the response.   *)
(***************************************************************************)
C6_IgnoredNeverTouched ==
  \A U \in visited_urls \cup document_urls : ~should_ignore_url(U)

(***************************************************************************)
(* C7: the links of a response are never extracted, and no recursion       *)
(* starts, from a URL whose extension is in the document allow-list.       *)
(***************************************************************************)
C7_DocumentsAreLeaves ==
  /\ \A i \in EventsOf("extract") : ~is_document_url(crawlLog[i].url)
  /\ \A k \in DOMAIN stack : stack[k].pc = "loop" => ~is_document_url(stack[k].url)

\* a URL with a document extension answered 200 with hypertext that has links
C7_Witness ==
  \E i \in EventsOf("fetch") :
     /\ is_document_url(crawlLog[i].url)
     /\ crawlLog[i].status = 200 /\ crawlLog[i].ctype = CtHtml
     /\ PageLinks(args.graph, crawlLog[i].url) # << >>

(***************************************************************************)
(* C8: when the crawl ends, every link of every page it parsed (at any     *)
(* depth up to max_depth) whose extension is in the allow-list and not in  *)
(* the ignore list is in the document set; no fetch is made for a link     *)
(* with an ignored extension; and scenario A yields exactly {/r.pdf}.      *)
(***************************************************************************)
\* the links of a page that resolve to a URL
LinksOf(page) ==
  LET links == PageLinks(args.graph, page)
  IN  { urljoin(page, links[k]) :
          k \in { j \in DOMAIN links : ~LinkRaises(page, links[j]) } }

IsScenarioA ==
  /\ args.graph = "A" /\ args.seed = UrlRoot /\ args.max_depth = 1
  /\ args.include_ext = << >> /\ args.exclude_ext = << >>

C8_LinkedDocumentsCollected ==
  /\ CrawlOver =>
       \A i \in EventsOf("extract") :
          /\ crawlLog[i].depth <= args.max_depth
          /\ \A n \in LinksOf(crawlLog[i].url) :
               (is_document_url(n) /\ ~should_ignore_url(n)) => n \in document_urls
  /\ \A i \in EventsOf("fetch") : should_ignore_url(crawlLog[i].url) => crawlLog[i].depth = 1
  /\ (CrawlOver /\ IsScenarioA /\ EventsOf("extract") # {}) =>
       /\ document_urls = {UrlPdf}
       /\ Fetches(UrlJpg) = {}

(***************************************************************************)
(* C9: after a non-200 response the URL is in the frontier and not in the  *)
(* document set, its links are not extracted, and neither a rotation, a    *)
(* new session nor a second fetch of it follows, also with anonymity       *)
(* active at depth 1.                                                      *)
(***************************************************************************)
C9_Non200EndsBranch ==
  \A i \in EventsOf("fetch") :
     (crawlLog[i].kind = "response" /\ crawlLog[i].status # 200) =>
        /\ crawlLog[i].url \in visited_urls
        /\ crawlLog[i].url \notin document_urls
        /\ \A j \in EventsOf("extract") : crawlLog[j].url # crawlLog[i].url
        /\ Fetches(crawlLog[i].url) = {i}
        /\ i < Len(crawlLog) => crawlLog[i + 1].ev \notin {"rotate", "session"}
        /\ \A k \in DOMAIN stack : stack[k].url = crawlLog[i].url => stack[k].pc # "loop"

\* with anonymity active the seed answered 404 and the crawl has returned
C9_Witness ==
  /\ CrawlOver /\ AnonymityActive
  /\ crawlLog # << >>
  /\ crawlLog[1].depth = 1 /\ crawlLog[1].kind = "response" /\ crawlLog[1].status = 404

(***************************************************************************)
(* C10: while the transport is not anonymous, a download_document call     *)
(* makes one attempt: no second attempt, no rotation, no new session.      *)
(***************************************************************************)
C10_DirectDownloadOnce ==
  ~use_tor => dl.attempts <= 1 /\ dl.rotations = 0 /\ dl.sessions = 0

(***************************************************************************)
(* Reading the state of the manager                                        *)
(***************************************************************************)
\* stop_tor has returned
Deactivated == phase \in {"manager stopped", "manager stopped twice"}

\* start_tor has returned or raised
Activated == phase \in {"manager active", "manager failing"}

(***************************************************************************)
(* C11: once stop_tor has returned after a successful activation, HTTP_PROXY*)
(* and HTTPS_PROXY each hold what they held before start_tor was called,   *)
(* whether that was absent, the empty value or a non-empty value.          *)
(***************************************************************************)
C11_StopRestoresEnvironment ==
  (Deactivated /\ activation = "active") => environ = args.env

(***************************************************************************)
(* C12: when the verification request of the activation has failed,        *)
(* start_tor has returned without an exception, use_tor is false, and the  *)
(* environment proxy variables hold their values of before the activation. *)
(***************************************************************************)
C12_VerifyFailureFallsBack ==
  (Activated /\ activation = "verify failed") =>
     /\ phase = "manager active"
     /\ ~use_tor
     /\ environ = args.env

(***************************************************************************)
(* C13: once stop_tor has returned, no proxy process launched by the       *)
(* manager is running, whatever the activation went through.               *)
(***************************************************************************)
C13_NoProcessAfterStop == Deactivated => ~proc_alive

\* the process was launched, the verification request then failed, and
\* stop_tor has returned
C13_Witness ==
  /\ phase = "manager stopped"
  /\ args.launch_tor
  /\ activation = "verify failed"
  /\ tor_process = None
  /\ ~proc_alive

(***************************************************************************)
(* C14: an activation with launch requested whose probe found the proxy    *)
(* unreachable went on to spawn a process: it never ends at the failed     *)
(* probe, and the transport is disabled only by a failed spawn or a failed *)
(* verification.                                                           *)
(***************************************************************************)
C14_UnreachableProxyIsSpawned ==
  (Activated /\ args.use_tor /\ args.launch_tor) =>
     /\ activation # "probe failed"
     /\ ~use_tor => activation \in {"launch failed", "verify failed"}

(***************************************************************************)
(* C15: every identity rotation that was attempted slept the settling      *)
(* delay before it returned, whether the new-identity signal was sent or   *)
(* the control connection, the authentication or the signal failed.        *)
(***************************************************************************)
C15_RotationAlwaysSettles ==
  \A i \in EventsOf("rotate") : crawlLog[i].status = SettleSeconds

(***************************************************************************)
(* C16: in scenario D (anonymity requested, probe failed, launch not       *)
(* requested) the construction has completed, use_tor is false, nothing of *)
(* the environment or of the manager was touched, and the session of the   *)
(* scan, also after the error handlers replaced it, carries the stable     *)
(* browser User-Agent and none of the privacy headers.                     *)
(***************************************************************************)
ScenarioD == args.use_tor /\ ~args.launch_tor /\ activation = "probe failed"

C16_ScenarioDDirectSession ==
  ScenarioD =>
     /\ phase \notin {"new", "crashed"}
     /\ ~use_tor
     /\ environ = args.env
     /\ previous_proxy = NoSnapshot /\ tor_process = None /\ ~proc_alive
     /\ session.User_Agent = StableUserAgent
     /\ session.Accept_Language = None
     /\ session.DNT = None
     /\ session.Upgrade_Insecure_Requests = None

C16_Witness ==
  /\ ScenarioD /\ phase = "download"
  /\ Truthy(args.env.http)
  /\ dl.sessions > 0

(***************************************************************************)
(* C17: once stop_tor has returned the transport is disabled: use_tor is   *)
(* false, a session created now carries the non-anonymous headers, and     *)
(* renew_tor_identity attempts no rotation; and an active transport is     *)
(* left only by stop_tor.                                                  *)
(***************************************************************************)
C17_StopDisables ==
  /\ [](Deactivated =>
          /\ ~use_tor
          /\ \A choice \in DOMAIN user_agents :
                get_session(use_tor, choice) = Headers(StableUserAgent, None, None, None)
          /\ \A r \in RotationOutcomes : ~renew_tor_identity(use_tor, r).attempted)
  /\ [][(activation = "active" /\ use_tor /\ ~use_tor') => Deactivated']_vars

(***************************************************************************)
(* C18: stop_tor on a manager that was never activated changes neither the *)
(* environment nor the manager nor anything else, and a second stop_tor    *)
(* right after a first one changes nothing more.                           *)
(***************************************************************************)
C18_StopIdempotent ==
  [][/\ (phase = "manager created" /\ phase' = "manager stopped") =>
          connVars' = connVars /\ session' = session
     /\ (phase = "manager stopped" /\ phase' = "manager stopped twice") =>
          connVars' = connVars /\ session' = session]_vars

C18_Witness ==
  /\ phase = "manager stopped twice"
  /\ activation = "active" /\ args.launch_tor
  /\ Truthy(args.env.http) /\ environ = args.env
  /\ ~proc_alive

(***************************************************************************)
(* C19: a failed identity rotation never leaves renew_tor_identity as an   *)
(* exception: the program only ever crashes in construction, or on a seed  *)
(* that urlparse rejects, before any rotation; every failed                *)
(* rotation of the crawl is followed by the replacement of the session,    *)
(* every rotation of a download by a new session for the next attempt, and *)
(* no step of the crawl or of the downloads changes the transport mode.    *)
(***************************************************************************)
FailedRotations == { i \in EventsOf("rotate") : crawlLog[i].kind # "renewed" }

C19_RotationFailureSwallowed ==
  /\ [](/\ phase = "crashed" =>
             /\ dl = IdleDownload
             /\ \/ crawlLog = << >>
                \/ urlparse_raises(args.seed) /\ EventsOf("rotate") = {}
        /\ \A i \in FailedRotations :
             i < Len(crawlLog) /\ crawlLog[i + 1].ev = "session"
        /\ dl.rotations <= dl.sessions)
  /\ [][(phase = "crawl" \/ phase = "download") =>
          use_tor' = use_tor /\ activation' = activation]_vars

C19_Witness ==
  /\ phase = "done"
  /\ FailedRotations # {}
  /\ \E i \in FailedRotations : crawlLog[i + 1].ev = "session"

(***************************************************************************)
(* C20: whenever scan_url starts its traversal, on a new instance or on    *)
(* one that has scanned before, the frontier and the document set are      *)
(* empty.                                                                  *)
(***************************************************************************)
C20_ScanStartsEmpty ==
  [][(phase # "crawl" /\ phase' = "crawl") =>
        visited_urls = {} /\ document_urls = {}]_vars

(***************************************************************************)
(* C21: while the transport is inactive (use_tor false), whether anonymity *)
(* was never requested or was requested and fell back, the session used by *)
(* the crawl and the downloads carries the stable browser User-Agent.      *)
(***************************************************************************)
C21_InactiveSessionStableHeader ==
  ((phase = "crawl" \/ phase = "download") /\ ~use_tor) =>
     session.User_Agent = StableUserAgent

(***************************************************************************)
(* C22: a program started without GEMINI_API_KEY, through docscoop_cli or  *)
(* through docscoop, has exited with a non-zero status, and no transport   *)
(* activation, session or scan took place before the exit.                 *)
(***************************************************************************)
C22_MissingKeyExitsNonZero ==
  (phase = "exited" /\ ~args.api_key) =>
     /\ exit_status # 0
     /\ activation = "not called" /\ session = NoSession
     /\ environ = args.env
     /\ visited_urls = {} /\ crawlLog = << >>

(***************************************************************************)
(* C23: a network error on a fetch at depth greater than 1, or on any      *)
(* fetch while anonymity is not active, is followed by no rotation and no  *)
(* session replacement; and when the crawl is over every link of every     *)
(* parsed page was handled, whatever happened to the links before it: it   *)
(* was ignored, recorded as a document, beyond the depth limit, malformed, *)
(* or it is in the frontier.                                               *)
(***************************************************************************)
C23_OnlyActiveTopLevelFailuresRetry ==
  /\ \A i \in EventsOf("fetch") :
       (crawlLog[i].kind = "error" /\ (crawlLog[i].depth > 1 \/ ~AnonymityActive)) =>
          (i < Len(crawlLog) => crawlLog[i + 1].ev \notin {"rotate", "session"})
  /\ CrawlOver =>
       \A i \in EventsOf("extract") :
          \A n \in LinksOf(crawlLog[i].url) :
             \/ should_ignore_url(n)
             \/ is_document_url(n) /\ n \in document_urls
             \/ crawlLog[i].depth >= args.max_depth
             \/ ~HasSchemeAndHost(n)
             \/ n \in visited_urls

(***************************************************************************)
(* C24: with anonymity active, every attempt of download_document that     *)
(* raised was followed by one rotation and one fresh anonymous session,    *)
(* and the call went on to a new attempt on the same URL; an attempt that  *)
(* got a response, 200 or not, ended the call with no rotation and no new  *)
(* session. So a running call has rotated once per attempt made, and a     *)
(* call that returned has rotated once per attempt but the last.           *)
(***************************************************************************)
C24_ActiveDownloadRetries ==
  /\ []((AnonymityActive /\ phase = "download") =>
          /\ dl.state = "running" =>
                dl.rotations = dl.attempts /\ dl.sessions = dl.attempts
          /\ dl.state = "returned" =>
                /\ dl.attempts >= 1
                /\ dl.rotations = dl.attempts - 1 /\ dl.sessions = dl.attempts - 1)
  /\ [][(AnonymityActive /\ dl.state = "running" /\ dl'.attempts = dl.attempts + 1) =>
          /\ dl'.url = dl.url
          /\ IF dl'.state = "running"
             THEN /\ dl'.rotations = dl.rotations + 1
                  /\ dl'.sessions = dl.sessions + 1
                  /\ \E choice \in DOMAIN user_agents :
                       session' = get_session(TRUE, choice)
             ELSE /\ dl'.state = "returned"
                  /\ dl'.rotations = dl.rotations /\ session' = session]_vars

C24_Witness ==
  /\ AnonymityActive /\ phase = "download"
  /\ dl.state = "returned" /\ dl.attempts >= 2 /\ dl.path # NoFile

(***************************************************************************)
(* C25: every fetch of the crawl is at a depth from 1 to max_depth; a call *)
(* of crawl_page made from the link loop has a depth of at most max_depth, *)
(* its caller being strictly below max_depth; and a call whose depth       *)
(* exceeds max_depth, or whose URL lacks a scheme or a host or is already  *)
(* in the frontier, returns with the frontier, the document set and the    *)
(* history of requests unchanged.                                          *)
(***************************************************************************)
\* the call on top of the stack is at its guard and the guard rejects it
Rejected ==
  /\ phase = "crawl" /\ stack # << >> /\ Top.pc = "enter"
  /\ \/ Top.depth > args.max_depth
     \/ ~HasSchemeAndHost(Top.url)
     \/ Top.url \in visited_urls

C25_DepthLimitAndGuard ==
  /\ [](/\ \A i \in EventsOf("fetch") :
             crawlLog[i].depth >= 1 /\ crawlLog[i].depth <= args.max_depth
        /\ \A k \in DOMAIN stack :
             k > 1 => /\ stack[k].depth <= args.max_depth
                      /\ stack[k - 1].depth < args.max_depth \/
                           (stack[k - 1].pc = "retried" /\
                            stack[k - 1].depth = stack[k].depth))
  /\ [][Rejected =>
          /\ visited_urls' = visited_urls
          /\ document_urls' = document_urls
          /\ crawlLog' = crawlLog
          /\ stack' = Pop]_vars

\* a page parsed at depth = max_depth had a crawlable link, which was not
\* followed
C25_Witness ==
  /\ CrawlOver /\ args.max_depth = MaxDepthArg
  /\ \E i \in EventsOf("extract") :
       /\ crawlLog[i].depth = args.max_depth
       /\ \E n \in LinksOf(crawlLog[i].url) :
            /\ HasSchemeAndHost(n) /\ ~is_document_url(n) /\ ~should_ignore_url(n)
            /\ n \notin visited_urls

(***************************************************************************)
(* C26: no download is started and no result exists before the traversal   *)
(* of the scan has finished; the loop of scan_url takes each document once *)
(* and goes on to the next one whether or not its download returned a      *)
(* file, adding one result entry exactly when it did, whatever extraction  *)
(* and analysis gave; and when scan_url returns, every URL of the document *)
(* set has been through the loop.                                          *)
(***************************************************************************)
ResultsFor(url) == { e \in results : e.url = url }

C26_EveryDocumentProcessed ==
  /\ [](/\ phase \in {"start", "new", "constructed", "configured", "crawl"} =>
             dl = IdleDownload /\ processed = {} /\ results = {}
        /\ phase = "done" => processed = document_urls
        /\ \A e \in results : e.url \in processed
        /\ \A u \in processed : Cardinality(ResultsFor(u)) <= 1)
  /\ [][(dl.state = "returned" /\ dl'.state = "idle") =>
          /\ dl.url \notin processed
          /\ processed' = processed \cup {dl.url}
          /\ phase' = phase /\ document_urls' = document_urls
          /\ IF dl.path = NoFile
             THEN results' = results
             ELSE \E b \in BOOLEAN :
                    results' = results \cup {[url |-> dl.url, is_sensitive |-> b]}]_vars

\* a scan that returned with a result for one document and none for another
C26_Witness ==
  /\ phase = "done"
  /\ \E u, v \in document_urls : ResultsFor(u) # {} /\ ResultsFor(v) = {}

(***************************************************************************)
(* C27: when scan_url has returned, no temporary file created by           *)
(* download_document during the scan exists any more.                      *)
(***************************************************************************)
C27_NoTemporaryFileLeft ==
  (phase = "done" \/ (phase = "exited" /\ ~Interrupted)) => temp_files = EmptyBag

(***************************************************************************)
(* C28 as claimed: when the crawl is over and every fetch got a 200        *)
(* hypertext response, every page within max_depth - 1 crawlable links of  *)
(* the seed (links that are well-formed, not documents and not ignored)    *)
(* has been fetched, whatever the order of the links on the pages.         *)
(***************************************************************************)
Crawlable(n) == HasSchemeAndHost(n) /\ ~is_document_url(n) /\ ~should_ignore_url(n)

\* the pages within k crawlable links of the seed
RECURSIVE ReachWithin(_)
ReachWithin(k) ==
  IF k = 0 THEN {args.seed}
  ELSE LET near == ReachWithin(k - 1)
       IN  near \cup { n \in UNION { LinksOf(p) : p \in near } : Crawlable(n) }

AllFetchesHypertext ==
  \A i \in EventsOf("fetch") :
     /\ crawlLog[i].kind = "response" /\ crawlLog[i].status = 200
     /\ InContentType("text/html", crawlLog[i].ctype)

C28_ReachablePagesFetched ==
  (phase \in {"download", "done"} /\ AllFetchesHypertext /\ Crawlable(args.seed) /\
   args.max_depth >= 1) =>
     \A n \in ReachWithin(args.max_depth - 1) : Fetches(n) # {}

(***************************************************************************)
(* C28 amended: when the crawl is over and every fetch got a 200 hypertext *)
(* response, a crawlable seed has been fetched (max_depth >= 1), and of    *)
(* every page whose links were extracted at a depth below max_depth, every *)
(* crawlable link that stands before the first malformed link of the page  *)
(* (one for which urljoin raises) has been fetched.  A page first fetched  *)
(* at depth max_depth is not expanded, also when a shorter path leads to   *)
(* it.                                                                     *)
(***************************************************************************)
\* the links of a page that the link loop resolves: those before the first
\* one that makes the loop body raise
LinksReached(page) ==
  LET links   == PageLinks(args.graph, page)
      raising == { j \in DOMAIN links : LinkRaises(page, links[j]) }
  IN  { urljoin(page, links[k]) :
          k \in { j \in DOMAIN links : \A m \in raising : j < m } }

C28_ExpandedPagesLinksFetched ==
  (phase \in {"download", "done"} /\ AllFetchesHypertext) =>
     /\ (Crawlable(args.seed) /\ args.max_depth >= 1) => Fetches(args.seed) # {}
     /\ \A i \in EventsOf("extract") :
          crawlLog[i].depth < args.max_depth =>
             \A n \in LinksReached(crawlLog[i].url) : Crawlable(n) => Fetches(n) # {}

\* the diamond: q was fetched at depth max_depth through p, and t, two links
\* from the seed, was not fetched
C28_Witness ==
  /\ phase = "done" /\ AllFetchesHypertext
  /\ \E i \in EventsOf("extract") :
       /\ crawlLog[i].depth < args.max_depth
       /\ \E n \in LinksReached(crawlLog[i].url) : Crawlable(n) /\ Fetches(n) # {}
  /\ \E n \in ReachWithin(args.max_depth - 1) : Fetches(n) = {}

\* d is in the frontier, its fetch returned 200, and it has an allow-list
\* extension or the response declared a document content type
FetchedDocument(d) ==
  /\ d \in visited_urls
  /\ \E i \in Fetches(d) :
       /\ crawlLog[i].kind = "response" /\ crawlLog[i].status = 200
       /\ (is_document_url(d) \/ IsDocumentContentType(crawlLog[i].ctype))

\* d is a link, with an allow-list and non-ignored extension, of a page in
\* the frontier that was fetched with status 200 and a hypertext content type
LinkedDocument(d) ==
  /\ is_document_url(d) /\ ~should_ignore_url(d)
  /\ \E i \in EventsOf("fetch") :
       /\ crawlLog[i].url \in visited_urls
       /\ crawlLog[i].kind = "response" /\ crawlLog[i].status = 200
       /\ InContentType("text/html", crawlLog[i].ctype)
       /\ d \in LinksOf(crawlLog[i].url)

(***************************************************************************)
(* C29: in every state, each URL of the document set is a fetched          *)
(* document (in the frontier, fetch returned 200, allow-list extension or  *)
(* declared document content type) or a linked document (an allow-list,    *)
(* non-ignored link of a page in the frontier fetched with 200 and a       *)
(* hypertext content type); a document that is not a fetched document has  *)
(* not been fetched and is not in the frontier.                            *)
(***************************************************************************)
C29_DocumentProvenance ==
  \A d \in document_urls :
     /\ FetchedDocument(d) \/ LinkedDocument(d)
     /\ ~FetchedDocument(d) => (d \notin visited_urls /\ Fetches(d) = {})

\* a crawl over that recorded a linked document it never fetched, on a page
\* that also links to a URL whose extension is in both lists
C29_Witness ==
  /\ phase = "download"
  /\ \E d \in document_urls :
       LinkedDocument(d) /\ d \notin visited_urls /\ Fetches(d) = {}
  /\ \E l \in LinksOf(args.seed) : should_ignore_url(l) /\ is_document_url(l)

====
